---------------------------- MODULE Spec2Model ----------------------------
(***************************************************************************)
(* Model of the DSMR P1 telegram parser of the SMR-Multi firmware (v6.2,   *)
(* src/unnamed/part_002) and of the loop code that drives it.              *)
(*                                                                         *)
(* Bytes are numbers 0..255.  Text is a sequence of bytes; a C string is   *)
(* the sequence of the bytes before its first NUL.  64-bit values are kept *)
(* as four 16-bit limbs (TLC's integers are 32 bits wide), 32-bit and      *)
(* 16-bit fields as integers in their two's complement range.              *)
(***************************************************************************)
EXTENDS Integers, Sequences, FiniteSets, TLC

-----------------------------------------------------------------------------
(* Bytes *)

\* The ASCII codes the code names as character literals.
CH == [nul |-> 0, tab |-> 9, lf |-> 10, vt |-> 11, ff |-> 12, cr |-> 13,
       sp |-> 32, bang |-> 33, lparen |-> 40, rparen |-> 41, star |-> 42,
       plus |-> 43, minus |-> 45, dot |-> 46, slash |-> 47, d0 |-> 48,
       d9 |-> 57, colon |-> 58, uA |-> 65, uF |-> 70, uX |-> 88, uZ |-> 90,
       la |-> 97, lf6 |-> 102, lx |-> 120]

Byte == 0..255

IsDigit(c) == c >= CH.d0 /\ c <= CH.d9
IsUpper(c) == c >= CH.uA /\ c <= CH.uZ

\* The index of the first occurrence of byte c in s at or after index from,
\* 0 when there is none (strchr on a C string that holds no NUL).
IndexFrom(s, c, from) ==
    LET hits == {i \in from..Len(s) : s[i] = c}
    IN  IF hits = {} THEN 0
        ELSE CHOOSE i \in hits : \A j \in hits : i <= j

\* The C string held in a byte array: the bytes before the first NUL.
CStr(s) ==
    LET z == IndexFrom(s, CH.nul, 1)
    IN  IF z = 0 THEN s ELSE SubSeq(s, 1, z - 1)

\* strncpy(dst, src, n) into a zeroed field of n+1 bytes, read back as a C
\* string: the first n bytes of src (strncpy pads the rest with NULs, and the
\* field's last byte is never written).
StrNCpy(src, n) == IF Len(src) <= n THEN src ELSE SubSeq(src, 1, n)

-----------------------------------------------------------------------------
(* Fixed-width arithmetic *)

\* Exclusive or of two naturals, bit by bit.
RECURSIVE BitXor(_, _)
BitXor(a, b) ==
    IF a = 0 THEN b
    ELSE IF b = 0 THEN a
    ELSE ((a + b) % 2) + 2 * BitXor(a \div 2, b \div 2)

\* a with bit k (0 = least significant) inverted.
RECURSIVE Pow2(_)
Pow2(k) == IF k = 0 THEN 1 ELSE 2 * Pow2(k - 1)
FlipBit(a, k) == BitXor(a, Pow2(k))

\* A 64-bit pattern is <<l1, l2, l3, l4>>, least significant limb first,
\* each limb in 0..65535.
LimbBase == 256 * 256
Zero64 == <<0, 0, 0, 0>>

\* x * m + a modulo 2^64, for m <= 32767 and a <= 65535.
MulAdd64(x, m, a) ==
    LET s1 == x[1] * m + a
        s2 == x[2] * m + (s1 \div LimbBase)
        s3 == x[3] * m + (s2 \div LimbBase)
        s4 == x[4] * m + (s3 \div LimbBase)
    IN  <<s1 % LimbBase, s2 % LimbBase, s3 % LimbBase, s4 % LimbBase>>

\* x + n modulo 2^64, for a natural n below 2^31.
AddNat64(x, n) ==
    LET s1 == x[1] + (n % LimbBase)
        s2 == x[2] + (n \div LimbBase) + (s1 \div LimbBase)
        s3 == x[3] + (s2 \div LimbBase)
        s4 == x[4] + (s3 \div LimbBase)
    IN  <<s1 % LimbBase, s2 % LimbBase, s3 % LimbBase, s4 % LimbBase>>

\* x divided by d, for 1 <= d <= 10000 (long division from the top limb).
DivSmall64(x, d) ==
    LET t4 == x[4]
        t3 == (t4 % d) * LimbBase + x[3]
        t2 == (t3 % d) * LimbBase + x[2]
        t1 == (t2 % d) * LimbBase + x[1]
    IN  <<t1 \div d, t2 \div d, t3 \div d, t4 \div d>>

\* 2^64 - x modulo 2^64 (two's complement negation).
Neg64(x) ==
    LET n1 == (LimbBase - x[1]) % LimbBase
        b1 == IF x[1] = 0 THEN 0 ELSE 1
        n2 == (2 * LimbBase - x[2] - b1) % LimbBase
        b2 == IF x[2] = 0 /\ b1 = 0 THEN 0 ELSE 1
        n3 == (2 * LimbBase - x[3] - b2) % LimbBase
        b3 == IF x[3] = 0 /\ b2 = 0 THEN 0 ELSE 1
        n4 == (2 * LimbBase - x[4] - b3) % LimbBase
    IN  <<n1, n2, n3, n4>>

\* An int64_t value: its sign and the 64-bit pattern of its magnitude.
\* The pattern of the value itself:
Pattern64(v) == IF v.neg THEN Neg64(v.mag) ELSE v.mag

\* (uint64_t)value: the pattern.
ToUint64(v) == Pattern64(v)

\* (int32_t)value: the low 32 bits of the pattern, read as two's complement.
ToInt32(v) ==
    LET p == Pattern64(v)
    IN  IF p[2] >= 32768 THEN (p[2] - LimbBase) * LimbBase + p[1]
        ELSE p[2] * LimbBase + p[1]

\* (int16_t)value: the low 16 bits of the pattern, read as two's complement.
ToInt16(v) ==
    LET p == Pattern64(v)
    IN  IF p[1] >= 32768 THEN p[1] - LimbBase ELSE p[1]

\* The limbs of a natural below 2^31.
Nat64(n) == <<n % LimbBase, n \div LimbBase, 0, 0>>

-----------------------------------------------------------------------------
(* OBIS codes *)

OBIS_METER_ID == <<48, 45, 48, 58, 57, 54, 46, 49, 46, 49>>  \* "0-0:96.1.1"
OBIS_TIMESTAMP == <<48, 45, 48, 58, 49, 46, 48, 46, 48>>  \* "0-0:1.0.0"
OBIS_POWER_LIMIT == <<48, 45, 48, 58, 49, 55, 46, 48, 46, 48>>  \* "0-0:17.0.0"
OBIS_ENERGY_DEL_LOW == <<49, 45, 48, 58, 49, 46, 56, 46, 49>>  \* "1-0:1.8.1"
OBIS_ENERGY_DEL_HIGH == <<49, 45, 48, 58, 49, 46, 56, 46, 50>>  \* "1-0:1.8.2"
OBIS_ENERGY_PROD_LOW == <<49, 45, 48, 58, 50, 46, 56, 46, 49>>  \* "1-0:2.8.1"
OBIS_ENERGY_PROD_HIGH == <<49, 45, 48, 58, 50, 46, 56, 46, 50>>  \* "1-0:2.8.2"
OBIS_CURRENT_POWER == <<49, 45, 48, 58, 49, 46, 55, 46, 48>>  \* "1-0:1.7.0"
OBIS_CURRENT_RETURN == <<49, 45, 48, 58, 50, 46, 55, 46, 48>>  \* "1-0:2.7.0"
OBIS_POWER_L1 == <<49, 45, 48, 58, 50, 49, 46, 55, 46, 48>>  \* "1-0:21.7.0"
OBIS_POWER_L2 == <<49, 45, 48, 58, 52, 49, 46, 55, 46, 48>>  \* "1-0:41.7.0"
OBIS_POWER_L3 == <<49, 45, 48, 58, 54, 49, 46, 55, 46, 48>>  \* "1-0:61.7.0"
OBIS_RETURN_L1 == <<49, 45, 48, 58, 50, 50, 46, 55, 46, 48>>  \* "1-0:22.7.0"
OBIS_RETURN_L2 == <<49, 45, 48, 58, 52, 50, 46, 55, 46, 48>>  \* "1-0:42.7.0"
OBIS_RETURN_L3 == <<49, 45, 48, 58, 54, 50, 46, 55, 46, 48>>  \* "1-0:62.7.0"
OBIS_VOLTAGE_L1 == <<49, 45, 48, 58, 51, 50, 46, 55, 46, 48>>  \* "1-0:32.7.0"
OBIS_VOLTAGE_L2 == <<49, 45, 48, 58, 53, 50, 46, 55, 46, 48>>  \* "1-0:52.7.0"
OBIS_VOLTAGE_L3 == <<49, 45, 48, 58, 55, 50, 46, 55, 46, 48>>  \* "1-0:72.7.0"
OBIS_CURRENT_L1 == <<49, 45, 48, 58, 51, 49, 46, 55, 46, 48>>  \* "1-0:31.7.0"
OBIS_CURRENT_L2 == <<49, 45, 48, 58, 53, 49, 46, 55, 46, 48>>  \* "1-0:51.7.0"
OBIS_CURRENT_L3 == <<49, 45, 48, 58, 55, 49, 46, 55, 46, 48>>  \* "1-0:71.7.0"
OBIS_PF_TOTAL == <<49, 45, 48, 58, 49, 51, 46, 55, 46, 48>>  \* "1-0:13.7.0"
OBIS_PF_L1 == <<49, 45, 48, 58, 51, 51, 46, 55, 46, 48>>  \* "1-0:33.7.0"
OBIS_PF_L2 == <<49, 45, 48, 58, 53, 51, 46, 55, 46, 48>>  \* "1-0:53.7.0"
OBIS_PF_L3 == <<49, 45, 48, 58, 55, 51, 46, 55, 46, 48>>  \* "1-0:73.7.0"

OBIS_ID == [NONE |-> 0, METER_ID |-> 1, TIMESTAMP |-> 2, POWER_LIMIT |-> 3,
            ENERGY_DEL_LOW |-> 4, ENERGY_DEL_HIGH |-> 5,
            ENERGY_PROD_LOW |-> 6, ENERGY_PROD_HIGH |-> 7,
            CURRENT_POWER |-> 8, CURRENT_RETURN |-> 9,
            POWER_L1 |-> 10, POWER_L2 |-> 11, POWER_L3 |-> 12,
            RETURN_L1 |-> 13, RETURN_L2 |-> 14, RETURN_L3 |-> 15,
            VOLTAGE_L1 |-> 16, VOLTAGE_L2 |-> 17, VOLTAGE_L3 |-> 18,
            CURRENT_L1 |-> 19, CURRENT_L2 |-> 20, CURRENT_L3 |-> 21,
            PF_TOTAL |-> 22, PF_L1 |-> 23, PF_L2 |-> 24, PF_L3 |-> 25]

OBIS_TABLE == <<
    [obis_string |-> OBIS_METER_ID,         obis_id |-> OBIS_ID.METER_ID],
    [obis_string |-> OBIS_TIMESTAMP,        obis_id |-> OBIS_ID.TIMESTAMP],
    [obis_string |-> OBIS_POWER_LIMIT,      obis_id |-> OBIS_ID.POWER_LIMIT],
    [obis_string |-> OBIS_ENERGY_DEL_LOW,   obis_id |-> OBIS_ID.ENERGY_DEL_LOW],
    [obis_string |-> OBIS_ENERGY_DEL_HIGH,  obis_id |-> OBIS_ID.ENERGY_DEL_HIGH],
    [obis_string |-> OBIS_ENERGY_PROD_LOW,  obis_id |-> OBIS_ID.ENERGY_PROD_LOW],
    [obis_string |-> OBIS_ENERGY_PROD_HIGH, obis_id |-> OBIS_ID.ENERGY_PROD_HIGH],
    [obis_string |-> OBIS_CURRENT_POWER,    obis_id |-> OBIS_ID.CURRENT_POWER],
    [obis_string |-> OBIS_CURRENT_RETURN,   obis_id |-> OBIS_ID.CURRENT_RETURN],
    [obis_string |-> OBIS_POWER_L1,         obis_id |-> OBIS_ID.POWER_L1],
    [obis_string |-> OBIS_POWER_L2,         obis_id |-> OBIS_ID.POWER_L2],
    [obis_string |-> OBIS_POWER_L3,         obis_id |-> OBIS_ID.POWER_L3],
    [obis_string |-> OBIS_RETURN_L1,        obis_id |-> OBIS_ID.RETURN_L1],
    [obis_string |-> OBIS_RETURN_L2,        obis_id |-> OBIS_ID.RETURN_L2],
    [obis_string |-> OBIS_RETURN_L3,        obis_id |-> OBIS_ID.RETURN_L3],
    [obis_string |-> OBIS_VOLTAGE_L1,       obis_id |-> OBIS_ID.VOLTAGE_L1],
    [obis_string |-> OBIS_VOLTAGE_L2,       obis_id |-> OBIS_ID.VOLTAGE_L2],
    [obis_string |-> OBIS_VOLTAGE_L3,       obis_id |-> OBIS_ID.VOLTAGE_L3],
    [obis_string |-> OBIS_CURRENT_L1,       obis_id |-> OBIS_ID.CURRENT_L1],
    [obis_string |-> OBIS_CURRENT_L2,       obis_id |-> OBIS_ID.CURRENT_L2],
    [obis_string |-> OBIS_CURRENT_L3,       obis_id |-> OBIS_ID.CURRENT_L3],
    [obis_string |-> OBIS_PF_TOTAL,         obis_id |-> OBIS_ID.PF_TOTAL],
    [obis_string |-> OBIS_PF_L1,            obis_id |-> OBIS_ID.PF_L1],
    [obis_string |-> OBIS_PF_L2,            obis_id |-> OBIS_ID.PF_L2],
    [obis_string |-> OBIS_PF_L3,            obis_id |-> OBIS_ID.PF_L3] >>

OBIS_TABLE_COUNT == Len(OBIS_TABLE)

\* Byte i of a C string, NUL at its end.
CharAt(s, i) == IF i <= Len(s) THEN s[i] ELSE CH.nul

\* The do-while loop of strcmp_P_safe, entered at index i.
RECURSIVE strcmp_P_loop(_, _, _)
strcmp_P_loop(str, pstr, i) ==
    LET c2 == CharAt(pstr, i)
        c1 == CharAt(str, i)
    IN  IF c1 = CH.nul THEN c2 = CH.nul
        ELSE IF c1 = c2 THEN strcmp_P_loop(str, pstr, i + 1)
        ELSE FALSE

\* A faulty variant: a string that ends before the table's string matches it.
RECURSIVE strcmp_P_prefix(_, _)
strcmp_P_prefix(str, pstr) ==
    IF str = <<>> THEN TRUE
    ELSE IF pstr = <<>> THEN FALSE
    ELSE Head(str) = Head(pstr) /\ strcmp_P_prefix(Tail(str), Tail(pstr))

strcmp_P_safe(str, pstr) == strcmp_P_loop(str, pstr, 1)

\* The for loop of match_obis_code, entered at table index i.
RECURSIVE match_obis_loop(_, _)
match_obis_loop(obis, i) ==
    IF i > OBIS_TABLE_COUNT THEN OBIS_ID.NONE
    ELSE IF strcmp_P_safe(obis, OBIS_TABLE[i].obis_string)
         THEN OBIS_TABLE[i].obis_id
         ELSE match_obis_loop(obis, i + 1)

match_obis_code(obis) == match_obis_loop(obis, 1)

-----------------------------------------------------------------------------
(* CRC16 *)

\* The reflected polynomial 0xA001.
CRC_POLY == 10 * 4096 + 1

\* The for loop of crc16_update: the remaining 8 - i shift steps.
RECURSIVE crc16_shift(_, _)
crc16_shift(crc, i) ==
    IF i = 8 THEN crc
    ELSE LET next == IF crc % 2 = 1 THEN BitXor(crc \div 2, CRC_POLY)
                     ELSE crc \div 2
         IN  \* (the test makes TLC evaluate next before the call)
             IF next >= 0 THEN crc16_shift(next, i + 1) ELSE 0

\* A faulty variant: the top bit of the byte is left out of the checksum.
crc16_update_7bit(crc, byte) == crc16_shift(BitXor(crc, byte % 128), 0)

crc16_update(crc, byte) == crc16_shift(BitXor(crc, byte), 0)

-----------------------------------------------------------------------------
(* ASCII to fixed point *)

\* The while loop of ascii_to_fixed from index i on: result (limbs),
\* fraction, decimal_seen and frac_digits are the loop's variables.
RECURSIVE ascii_scan(_, _, _, _, _, _)
ascii_scan(str, i, result, fraction, decimal_seen, frac_digits) ==
    IF i > Len(str)
    THEN [result |-> result, fraction |-> fraction, frac_digits |-> frac_digits]
    ELSE LET c == str[i]
         IN  IF c = CH.dot
             THEN ascii_scan(str, i + 1, result, fraction, TRUE, frac_digits)
             ELSE IF IsDigit(c)
             THEN IF ~decimal_seen
                  THEN LET next == MulAdd64(result, 10, c - CH.d0)
                       IN  \* (the test makes TLC evaluate next before the call)
                           IF next[1] >= 0
                           THEN ascii_scan(str, i + 1, next, fraction,
                                           decimal_seen, frac_digits)
                           ELSE ascii_scan(str, i + 1, next, fraction,
                                           decimal_seen, frac_digits)
                  ELSE IF frac_digits < 6
                  THEN ascii_scan(str, i + 1, result,
                                  fraction * 10 + (c - CH.d0),
                                  decimal_seen, frac_digits + 1)
                  ELSE ascii_scan(str, i + 1, result, fraction,
                                  decimal_seen, frac_digits)
             ELSE ascii_scan(str, i + 1, result, fraction,
                             decimal_seen, frac_digits)

\* A faulty variant: an if in place of the while, the fraction gains one
\* zero at most.
pad_fraction_once(fraction, frac_digits) ==
    IF frac_digits < 6 THEN fraction * 10 ELSE fraction

\* A faulty variant: the fraction is not padded to six digits.
pad_fraction_none(fraction, frac_digits) == fraction

\* while (frac_digits < 6) { fraction *= 10; frac_digits++; }
RECURSIVE pad_fraction(_, _)
pad_fraction(fraction, frac_digits) ==
    IF frac_digits < 6 THEN pad_fraction(fraction * 10, frac_digits + 1)
    ELSE fraction

\* A faulty variant: the integer part is multiplied by 1000.
combine_fraction_thousand(r) ==
    AddNat64(MulAdd64(r.result, 1000, 0),
             pad_fraction(r.fraction, r.frac_digits))

\* result = result * 1000000 + fraction, r being what the scan loop left.
combine_fraction(r) ==
    AddNat64(MulAdd64(MulAdd64(r.result, 1000, 0), 1000, 0),
             pad_fraction(r.fraction, r.frac_digits))

\* if (scale == 2) result /= 10000; else if (scale == 3) result /= 1000;
rescale(full, scale) ==
    IF scale = 2 THEN DivSmall64(full, 10000)
    ELSE IF scale = 3 THEN DivSmall64(full, 1000)
    ELSE full

\* return result * sign: a value is its sign and its magnitude; negative
\* zero is zero.
signed64(neg, mag) == [neg |-> neg /\ mag # Zero64, mag |-> mag]

HasMinus(str) == Len(str) > 0 /\ str[1] = CH.minus

ascii_to_fixed(str, scale) ==
    signed64(HasMinus(str),
             rescale(combine_fraction(
                         ascii_scan(str, IF HasMinus(str) THEN 2 ELSE 1,
                                    Zero64, 0, FALSE, 0)),
                     scale))

\* Whether x * m + a, computed on int64_t from an x of at most INT64_MAX,
\* leaves the range of int64_t (m <= 32767, a <= 65535).
Overflows64(x, m, a) ==
    LET s1 == x[1] * m + a
        s2 == x[2] * m + (s1 \div LimbBase)
        s3 == x[3] * m + (s2 \div LimbBase)
        s4 == x[4] * m + (s3 \div LimbBase)
    IN  s4 >= 32768

\* Whether x + n does, n a natural below 2^31.
AddOverflows64(x, n) ==
    LET s1 == x[1] + (n % LimbBase)
        s2 == x[2] + (n \div LimbBase) + (s1 \div LimbBase)
        s3 == x[3] + (s2 \div LimbBase)
        s4 == x[4] + (s3 \div LimbBase)
    IN  s4 >= 32768

\* Whether result = result * 10 + digit overflows in the while loop of
\* ascii_to_fixed from index i on.
RECURSIVE scan_overflows(_, _, _, _)
scan_overflows(str, i, result, decimal_seen) ==
    IF i > Len(str) \/ decimal_seen THEN FALSE
    ELSE IF str[i] = CH.dot THEN FALSE
    ELSE IF IsDigit(str[i])
    THEN \/ Overflows64(result, 10, str[i] - CH.d0)
         \/ scan_overflows(str, i + 1, MulAdd64(result, 10, str[i] - CH.d0),
                           decimal_seen)
    ELSE scan_overflows(str, i + 1, result, decimal_seen)

\* Whether result = result * 1000000 + fraction overflows.
combine_overflows(r) ==
    \/ Overflows64(r.result, 1000, 0)
    \/ Overflows64(MulAdd64(r.result, 1000, 0), 1000, 0)
    \/ AddOverflows64(MulAdd64(MulAdd64(r.result, 1000, 0), 1000, 0),
                      pad_fraction(r.fraction, r.frac_digits))

\* Whether a signed multiplication or addition of ascii_to_fixed overflows
\* on str, which the language leaves undefined.
fixed_overflows(str) ==
    LET first == IF HasMinus(str) THEN 2 ELSE 1
    IN  \/ scan_overflows(str, first, Zero64, FALSE)
        \/ combine_overflows(ascii_scan(str, first, Zero64, 0, FALSE, 0))

\* What a call of ascii_to_fixed may return: its value, and where an
\* operation overflows whatever the build makes of it (among others the
\* wrapped value, zero, and the two ends of the range).
INT64_MAX == <<65535, 65535, 65535, 32767>>
UndefinedInt64 ==
    { [neg |-> FALSE, mag |-> Zero64],
      [neg |-> FALSE, mag |-> INT64_MAX],
      [neg |-> TRUE, mag |-> <<0, 0, 0, 32768>>] }

fixed_outcomes(str, scale) ==
    IF fixed_overflows(str)
    THEN UndefinedInt64 \cup {ascii_to_fixed(str, scale)}
    ELSE {ascii_to_fixed(str, scale)}

\* value / d on an int64_t (C division truncates toward zero).
Div64(v, d) == signed64(v.neg, DivSmall64(v.mag, d))

-----------------------------------------------------------------------------
(* strtol(hex, NULL, 16) *)

IsSpace(c) == c \in {CH.sp, CH.tab, CH.lf, CH.vt, CH.ff, CH.cr}

\* The value of c as a digit in base 16, 16 when it is none.
HexDigit(c) ==
    IF IsDigit(c) THEN c - CH.d0
    ELSE IF c >= CH.uA /\ c <= CH.uF THEN c - CH.uA + 10
    ELSE IF c >= CH.la /\ c <= CH.lf6 THEN c - CH.la + 10
    ELSE 16

RECURSIVE SkipSpace(_, _)
SkipSpace(s, i) ==
    IF i <= Len(s) /\ IsSpace(s[i]) THEN SkipSpace(s, i + 1) ELSE i

\* The digits of s from index i on, accumulated onto acc, up to the first
\* byte that is no hexadecimal digit.
RECURSIVE HexAccum(_, _, _)
HexAccum(s, i, acc) ==
    IF i <= Len(s) /\ HexDigit(s[i]) < 16
    THEN HexAccum(s, i + 1, acc * 16 + HexDigit(s[i]))
    ELSE acc

\* strtol in base 16 on a string of at most 4 bytes: leading white space,
\* an optional sign, an optional 0x or 0X, then the longest run of
\* hexadecimal digits (0 when there is none).
strtol16(s) ==
    LET i   == SkipSpace(s, 1)
        neg == i <= Len(s) /\ s[i] = CH.minus
        j   == IF i <= Len(s) /\ s[i] \in {CH.minus, CH.plus} THEN i + 1 ELSE i
        pfx == j + 1 <= Len(s) /\ s[j] = CH.d0 /\ s[j + 1] \in {CH.lx, CH.uX}
        k   == IF pfx THEN j + 2 ELSE j
        v   == HexAccum(s, k, 0)
    IN  IF neg THEN 0 - v ELSE v

\* (uint16_t) of a long in -65535..65535.
ToUint16(n) == (n + LimbBase) % LimbBase

-----------------------------------------------------------------------------
(* The telegram record and the parser state *)

\* memset(data, 0, sizeof(dsmr_data_t))
EmptyData ==
    [ energy_delivered_low |-> Zero64, energy_delivered_high |-> Zero64,
      energy_produced_low |-> Zero64,  energy_produced_high |-> Zero64,
      current_power |-> 0, current_return |-> 0,
      power_l1 |-> 0, power_l2 |-> 0, power_l3 |-> 0,
      return_l1 |-> 0, return_l2 |-> 0, return_l3 |-> 0,
      voltage_l1 |-> 0, voltage_l2 |-> 0, voltage_l3 |-> 0,
      current_l1 |-> 0, current_l2 |-> 0, current_l3 |-> 0,
      pf_total |-> 0, pf_l1 |-> 0, pf_l2 |-> 0, pf_l3 |-> 0,
      power_limit |-> 0,
      meter_id |-> <<>>, timestamp |-> <<>>, equipment_id |-> <<>>,
      is_3phase |-> 0, frame_complete |-> 0, has_pf_data |-> 0 ]

\* Capacities of the arrays of dsmr_data_t and dsmr_parser_t.
SIZEOF == [meter_id |-> 33, timestamp |-> 14, equipment_id |-> 33,
           line_buffer |-> 80, value_buf |-> 80]

\* memset(parser, 0, sizeof(dsmr_parser_t)).  line_buffer holds the bytes
\* stored since line_index was last set to 0; what the array keeps beyond
\* line_index is never read (every read is of the C string that the NUL
\* written at line_index ends).
EmptyParser ==
    [ line_buffer |-> <<>>, line_index |-> 0, frame_active |-> 0,
      crc_calculated |-> 0, crc_done |-> 0 ]

-----------------------------------------------------------------------------
(* Line processing *)

NoValue == [ok |-> FALSE, value |-> <<>>]

\* A faulty variant: where neither ')' nor '*' follows the '(', the rest of
\* the line is the value.
extract_value_open(line) ==
    LET open == IndexFrom(line, CH.lparen, 1)
        end  == IndexFrom(line, CH.rparen, open + 1)
        unit == IndexFrom(line, CH.star, open + 1)
        stop == IF unit # 0 /\ (end = 0 \/ unit < end) THEN unit
                ELSE IF end # 0 THEN end
                ELSE Len(line) + 1
    IN  IF open = 0 THEN NoValue
        ELSE [ok |-> TRUE, value |-> SubSeq(line, open + 1, stop - 1)]

\* A faulty variant: the value ends at the first ')' only.
extract_value_paren(line) ==
    LET open == IndexFrom(line, CH.lparen, 1)
        end  == IndexFrom(line, CH.rparen, open + 1)
    IN  IF open = 0 \/ end = 0 THEN NoValue
        ELSE [ok |-> TRUE, value |-> SubSeq(line, open + 1, end - 1)]

extract_value(line) ==
    LET open == IndexFrom(line, CH.lparen, 1)
    IN  IF open = 0 THEN NoValue
        ELSE LET start == open + 1
                 end   == IndexFrom(line, CH.rparen, start)
                 unit  == IndexFrom(line, CH.star, start)
                 raw   == IF unit # 0 /\ (end = 0 \/ unit < end) THEN unit - start
                          ELSE IF end # 0 THEN end - start
                          ELSE -1
                 len   == IF raw >= SIZEOF.value_buf
                          THEN SIZEOF.value_buf - 1 ELSE raw
             IN  IF raw < 0 THEN NoValue
                 ELSE [ok |-> TRUE, value |-> SubSeq(line, start, start + len - 1)]

\* The first half of store_value: the scaled 64-bit value of a numeric field.
scaled_value(obis_type, value_str) ==
    IF obis_type >= OBIS_ID.VOLTAGE_L1 /\ obis_type <= OBIS_ID.VOLTAGE_L3
    THEN ascii_to_fixed(value_str, 2)
    ELSE IF obis_type >= OBIS_ID.CURRENT_L1 /\ obis_type <= OBIS_ID.CURRENT_L3
    THEN ascii_to_fixed(value_str, 3)
    ELSE IF obis_type >= OBIS_ID.PF_TOTAL /\ obis_type <= OBIS_ID.PF_L3
    THEN Div64(ascii_to_fixed(value_str, 6), 100)
    ELSE ascii_to_fixed(value_str, 6)

\* The switch of store_value.
store_field(d, obis_type, value) ==
    CASE obis_type = OBIS_ID.POWER_LIMIT      -> [d EXCEPT !.power_limit = ToInt32(value)]
      [] obis_type = OBIS_ID.ENERGY_DEL_LOW   -> [d EXCEPT !.energy_delivered_low = ToUint64(value)]
      [] obis_type = OBIS_ID.ENERGY_DEL_HIGH  -> [d EXCEPT !.energy_delivered_high = ToUint64(value)]
      [] obis_type = OBIS_ID.ENERGY_PROD_LOW  -> [d EXCEPT !.energy_produced_low = ToUint64(value)]
      [] obis_type = OBIS_ID.ENERGY_PROD_HIGH -> [d EXCEPT !.energy_produced_high = ToUint64(value)]
      [] obis_type = OBIS_ID.CURRENT_POWER    -> [d EXCEPT !.current_power = ToInt32(value)]
      [] obis_type = OBIS_ID.CURRENT_RETURN   -> [d EXCEPT !.current_return = ToInt32(value)]
      [] obis_type = OBIS_ID.POWER_L1         -> [d EXCEPT !.power_l1 = ToInt32(value)]
      [] obis_type = OBIS_ID.POWER_L2         -> [d EXCEPT !.power_l2 = ToInt32(value), !.is_3phase = 1]
      [] obis_type = OBIS_ID.POWER_L3         -> [d EXCEPT !.power_l3 = ToInt32(value), !.is_3phase = 1]
      [] obis_type = OBIS_ID.RETURN_L1        -> [d EXCEPT !.return_l1 = ToInt32(value)]
      [] obis_type = OBIS_ID.RETURN_L2        -> [d EXCEPT !.return_l2 = ToInt32(value)]
      [] obis_type = OBIS_ID.RETURN_L3        -> [d EXCEPT !.return_l3 = ToInt32(value)]
      [] obis_type = OBIS_ID.VOLTAGE_L1       -> [d EXCEPT !.voltage_l1 = ToInt16(value)]
      [] obis_type = OBIS_ID.VOLTAGE_L2       -> [d EXCEPT !.voltage_l2 = ToInt16(value), !.is_3phase = 1]
      [] obis_type = OBIS_ID.VOLTAGE_L3       -> [d EXCEPT !.voltage_l3 = ToInt16(value), !.is_3phase = 1]
      [] obis_type = OBIS_ID.CURRENT_L1       -> [d EXCEPT !.current_l1 = ToInt16(value)]
      [] obis_type = OBIS_ID.CURRENT_L2       -> [d EXCEPT !.current_l2 = ToInt16(value), !.is_3phase = 1]
      [] obis_type = OBIS_ID.CURRENT_L3       -> [d EXCEPT !.current_l3 = ToInt16(value), !.is_3phase = 1]
      [] obis_type = OBIS_ID.PF_TOTAL         -> [d EXCEPT !.pf_total = ToInt32(value)]
      [] obis_type = OBIS_ID.PF_L1            -> [d EXCEPT !.pf_l1 = ToInt32(value)]
      [] obis_type = OBIS_ID.PF_L2            -> [d EXCEPT !.pf_l2 = ToInt32(value)]
      [] obis_type = OBIS_ID.PF_L3            -> [d EXCEPT !.pf_l3 = ToInt32(value)]
      [] OTHER -> d

\* The record after store_value(data, obis_type, value_str).
store_value(data, obis_type, value_str) ==
    IF obis_type = OBIS_ID.METER_ID
    THEN [data EXCEPT !.meter_id = StrNCpy(value_str, SIZEOF.meter_id - 1)]
    ELSE IF obis_type = OBIS_ID.TIMESTAMP
    THEN [data EXCEPT !.timestamp = StrNCpy(value_str, SIZEOF.timestamp - 1)]
    ELSE store_field(IF obis_type >= OBIS_ID.PF_TOTAL /\ obis_type <= OBIS_ID.PF_L3
                     THEN [data EXCEPT !.has_pf_data = 1] ELSE data,
                     obis_type, scaled_value(obis_type, value_str))

\* A faulty variant: a terminator line without four characters after the
\* '!' is rejected.
crc_accepts_checked(line, crc_calculated) ==
    /\ Len(line) >= 5
    /\ ToUint16(strtol16(SubSeq(line, 2, 5))) = crc_calculated

\* A faulty variant: every terminator line is accepted.
crc_accepts_any(line, crc_calculated) == TRUE

\* The terminator branch of process_line: whether the line "!..." marks the
\* frame complete, given the accumulated CRC.
crc_accepts(line, crc_calculated) ==
    IF Len(line) >= 5
    THEN ToUint16(strtol16(SubSeq(line, 2, 5))) = crc_calculated
    ELSE TRUE

\* The tail of process_line for a line with a '(': the record after the
\* line's code resolved to obis_type and its value extracted as v.
data_line(data, obis_type, v) ==
    IF obis_type = OBIS_ID.NONE THEN data
    ELSE IF v.ok THEN store_value(data, obis_type, v.value)
    ELSE data

\* The text before the first '(' of a line that has one.
obis_prefix(line) == SubSeq(line, 1, IndexFrom(line, CH.lparen, 1) - 1)

\* A faulty variant: an equipment id once set is kept.
set_equipment_id_once(data, line) ==
    IF data.equipment_id # <<>> THEN data
    ELSE [data EXCEPT !.equipment_id = StrNCpy(line, SIZEOF.equipment_id - 1)]

\* strncpy(parser->data->equipment_id, line, sizeof(equipment_id) - 1)
set_equipment_id(data, line) ==
    [data EXCEPT !.equipment_id = StrNCpy(line, SIZEOF.equipment_id - 1)]

\* process_line(parser, line), line being the C string in the line buffer:
\* the parser's frame_active and the record afterwards.
process_line(frame_active, crc_calculated, data, line) ==
    IF Len(line) = 0 \/ line[1] = CH.cr
    THEN [frame_active |-> frame_active, data |-> data]
    ELSE IF (line[1] = CH.slash \/ IsUpper(line[1]))
            /\ IndexFrom(line, CH.colon, 1) = 0
    THEN [frame_active |-> frame_active,
          data |-> set_equipment_id(data, line)]
    ELSE IF line[1] = CH.bang
    THEN [frame_active |-> 0,
          data |-> IF crc_accepts(line, crc_calculated)
                   THEN [data EXCEPT !.frame_complete = 1] ELSE data]
    ELSE IF IndexFrom(line, CH.lparen, 1) = 0
    THEN [frame_active |-> frame_active, data |-> data]
    ELSE [frame_active |-> frame_active,
          data |-> data_line(data, match_obis_code(obis_prefix(line)),
                             extract_value(line))]

-----------------------------------------------------------------------------
(* The byte-at-a-time parser *)

\* A faulty variant: only '/' starts a frame.
starts_frame_slash(c) == c = CH.slash

\* Whether a byte received in the Idle state starts a frame.
starts_frame(c) == c = CH.slash \/ IsUpper(c) \/ IsDigit(c)

\* A faulty variant: the byte is stored whatever the index.
store_byte_unbounded(p, c) ==
    [p EXCEPT !.line_buffer = Append(p.line_buffer, c),
              !.line_index = p.line_index + 1]

\* The line buffer and its index after the store of byte c at the end of
\* dsmr_parse_byte.
store_byte(p, c) ==
    IF p.line_index < SIZEOF.line_buffer - 1
    THEN [p EXCEPT !.line_buffer = Append(p.line_buffer, c),
                   !.line_index = p.line_index + 1]
    ELSE p

\* A faulty variant: the accumulation does not stop at '!'.
accumulate_crc_all(p, c) ==
    [p EXCEPT !.crc_calculated = crc16_update(p.crc_calculated, c)]

\* A faulty variant: '\r' is left out of the hash.
accumulate_crc_no_cr(p, c) ==
    IF p.crc_done = 0 /\ c # CH.cr
    THEN [p EXCEPT !.crc_calculated = crc16_update(p.crc_calculated, c),
                   !.crc_done = IF c = CH.bang THEN 1 ELSE 0]
    ELSE p

\* The CRC fields after the accumulation step of dsmr_parse_byte.
accumulate_crc(p, c) ==
    IF p.crc_done = 0
    THEN [p EXCEPT !.crc_calculated = crc16_update(p.crc_calculated, c),
                   !.crc_done = IF c = CH.bang THEN 1 ELSE 0]
    ELSE p

\* A byte received in the Idle state.
idle_byte(p, d, c) ==
    IF starts_frame(c)
    THEN [parser |-> [ line_buffer |-> <<c>>, line_index |-> 1,
                       frame_active |-> 1,
                       crc_calculated |-> crc16_update(0, c),
                       crc_done |-> 0 ],
          data |-> d, ret |-> 0]
    ELSE [parser |-> p, data |-> d, ret |-> 0]

\* The '\n' branch after process_line returned r: the line index is reset
\* and frame-ready is returned when the record is marked complete.
end_of_line(q, r) ==
    [parser |-> [q EXCEPT !.line_buffer = <<>>, !.line_index = 0,
                          !.frame_active = r.frame_active],
     data |-> r.data,
     ret |-> IF r.data.frame_complete = 1 THEN 1 ELSE 0]

\* A faulty variant: '\r' ends the line as '\n' does.
frame_byte_cr_ends(q, d, c) ==
    IF c = CH.lf \/ c = CH.cr
    THEN end_of_line(q, process_line(q.frame_active, q.crc_calculated, d,
                                     CStr(q.line_buffer)))
    ELSE [parser |-> store_byte(q, c), data |-> d, ret |-> 0]

\* A byte received in a frame, q being the parser after the CRC step.
frame_byte(q, d, c) ==
    IF c = CH.lf
    THEN end_of_line(q, process_line(q.frame_active, q.crc_calculated, d,
                                     CStr(q.line_buffer)))
    ELSE IF c = CH.cr
    THEN [parser |-> q, data |-> d, ret |-> 0]
    ELSE [parser |-> store_byte(q, c), data |-> d, ret |-> 0]

\* dsmr_parse_byte(parser, c) on parser state p and record d: the state and
\* the record afterwards and the value returned.
dsmr_parse_byte(p, d, c) ==
    IF p.frame_active = 0 THEN idle_byte(p, d, c)
    ELSE frame_byte(accumulate_crc(p, c), d, c)

-----------------------------------------------------------------------------
(* Bounds of the model *)

\* How many chunks (telegrams, noise, over-long lines) the meter sends.
MaxChunks == 2
\* The length of an over-long line.
OverLen == 200

-----------------------------------------------------------------------------
(* The meter: what arrives on the serial line *)

CRLF == <<CH.cr, CH.lf>>

\* What the meter is sending: a telegram of the listed lines and a
\* terminator, a noise byte, an over-long line, a telegram with one bit
\* flipped (pos, bit), or a telegram with the power numerals x and y.
NoNumeral == [int |-> <<>>, frac |-> <<>>, dot |-> FALSE]
NoFeed == [kind |-> "none", body |-> <<>>, term |-> "none",
           pos |-> 0, bit |-> 0, x |-> NoNumeral, y |-> NoNumeral]
Telegram(body, term) == [NoFeed EXCEPT !.kind = "telegram", !.body = body, !.term = term]
Noise == [NoFeed EXCEPT !.kind = "noise"]
OverLong(term) == [NoFeed EXCEPT !.kind = "long", !.term = term]
Flipped(body, pos, bit) ==
    [NoFeed EXCEPT !.kind = "flip", !.body = body, !.term = "good",
                   !.pos = pos, !.bit = bit]
PowerTelegram(x, y) ==
    [NoFeed EXCEPT !.kind = "power", !.body = <<"hdr", "px", "py">>,
                   !.term = "good", !.x = x, !.y = y]

\* The byte b sent to an idle parser: alone, or after a telegram with a
\* wrong checksum.
IdleByte(b, term) ==
    [NoFeed EXCEPT !.kind = "idle", !.body = <<"hdr", "pw1">>, !.term = term,
                   !.pos = b]

\* A well-formed telegram interrupted: its last `drop` bytes never arrive.
Interrupted(body, drop) ==
    [NoFeed EXCEPT !.kind = "cut", !.body = body, !.term = "good",
                   !.pos = drop]

\* n bytes with neither '/' nor '!' nor '\n', then "!\r\n".
Flood(n) == [NoFeed EXCEPT !.kind = "flood", !.pos = n]

\* A well-formed telegram whose first `skip` bytes were sent before the
\* device listened.
Late(body, skip) ==
    [NoFeed EXCEPT !.kind = "late", !.body = body, !.term = "good",
                   !.pos = skip]

CurrentTelegram(x, y) ==
    [NoFeed EXCEPT !.kind = "current", !.body = <<"hdr", "i1", "i2", "i3">>,
                   !.term = "good", !.x = x, !.y = y]

\* A decimal numeral: its integer digits and its fractional digits.
NumeralText(n) ==
    IF n.dot THEN n.int \o <<CH.dot>> \o n.frac ELSE n.int

HDR == <<47, 73, 83, 107, 53, 92, 50, 77, 84, 51, 56, 50, 45, 49, 48, 48, 48>>  \* /ISk5\2MT382-1000
KW == <<CH.star, 107, 87, CH.rparen>>  \* *kW)

\* n filler bytes.
Filler(n) == [i \in 1..n |-> CH.lx]

\* n digits, 1234567890 repeated.
DigitRun(n) == [i \in 1..n |-> CH.d0 + (i % 10)]

LineBytes(id, f) ==
    CASE id = "hdr"   -> HDR
      [] id = "empty" -> <<>>
      [] id = "mid"   -> OBIS_METER_ID \o <<CH.lparen, 52, 66, 51, 56, 52, 53, 52, 55, CH.rparen>>  \* (4B384547)
      [] id = "pw1"   -> OBIS_CURRENT_POWER \o <<CH.lparen, 48, 48, CH.dot, 52, 50, 52>> \o KW  \* (00.424*kW)
      [] id = "pw2"   -> OBIS_CURRENT_POWER \o <<CH.lparen, 48, 49, CH.dot, 53, 48, 48>> \o KW  \* (01.500*kW)
      [] id = "ret"   -> OBIS_CURRENT_RETURN \o <<CH.lparen, 48, 48, CH.dot, 48, 48, 48>> \o KW  \* (00.000*kW)
      [] id = "v2"    -> OBIS_VOLTAGE_L2 \o <<CH.lparen, 50, 50, 57, CH.dot, 53, CH.star, 86, CH.rparen>>  \* (229.5*V)
      [] id = "pf"    -> OBIS_PF_TOTAL \o <<CH.lparen, 48, CH.dot, 57, 53, 53, CH.rparen>>  \* (0.955)
      [] id = "unk"   -> <<48, 45, 49, 58, 50, 52, 46, 50, 46, 49, 40, 49, 50, 55, 56, 53, 46, 49, 50, 51, 42, 109, 51, 41>>  \* 0-1:24.2.1(12785.123*m3)
      [] id = "slash" -> <<48, 45, 48, 58, 57, 54, 46, 49, 51, 46, 48, 40, 65, 47, 66, 41>>  \* 0-0:96.13.0(A/B)
      [] id = "upper" -> <<75, 70, 77, 53>>  \* KFM5
      [] id = "slashcolon" -> <<47, 65, 58, 66>>  \* /A:B
      [] id = "bangmid" -> <<48, 45, 48, 58, 57, 54, 46, 49, 51, 46, 48, 40, 65, 33, 66, 41>>  \* 0-0:96.13.0(A!B)
      [] id = "short" -> <<49, 65, 66>>  \* 1AB
      [] id = "noend" -> OBIS_CURRENT_POWER \o <<CH.lparen, 48, 48, CH.dot, 57, 57, 57>>  \* (00.999
      [] id = "paren" -> <<CH.lparen, 49, 50, CH.rparen>>  \* (12)
      [] id = "i1"    -> OBIS_CURRENT_L1 \o <<CH.lparen>> \o NumeralText(f.x) \o <<CH.star, 65, CH.rparen>>
      [] id = "i2"    -> OBIS_CURRENT_L2 \o <<CH.lparen>> \o NumeralText(f.y) \o <<CH.star, 65, CH.rparen>>
      [] id = "i3"    -> OBIS_CURRENT_L3 \o <<CH.lparen>> \o NumeralText(f.x) \o <<CH.star, 65, CH.rparen>>
      [] id = "hdrlong" -> HDR \o DigitRun(30)
      [] id = "midlong" -> OBIS_METER_ID \o <<CH.lparen>> \o DigitRun(40) \o <<CH.rparen>>
      [] id = "tslong"  -> OBIS_TIMESTAMP \o <<CH.lparen>> \o DigitRun(20) \o <<CH.rparen>>
      [] id = "wide"  -> OBIS_CURRENT_POWER \o <<CH.lparen, 48, 48, CH.dot, 52, 50, 52>> \o KW \o Filler(OverLen - 20)
      [] id = "px"    -> OBIS_CURRENT_POWER \o <<CH.lparen>> \o NumeralText(f.x) \o KW
      [] id = "py"    -> OBIS_CURRENT_RETURN \o <<CH.lparen>> \o NumeralText(f.y) \o KW

RECURSIVE BodyBytes(_, _)
BodyBytes(body, f) ==
    IF body = <<>> THEN <<>>
    ELSE LineBytes(Head(body), f) \o CRLF \o BodyBytes(Tail(body), f)

\* The CRC16 of a byte sequence from initial value 0, as the meter computes
\* it: bytes i..j of s folded onto crc, and the whole in runs of 16 bytes.
RECURSIVE CrcRange(_, _, _, _)
CrcRange(crc, s, i, j) ==
    IF i > j THEN crc
    ELSE LET next == crc16_update(crc, s[i])
         IN  IF next >= 0 THEN CrcRange(next, s, i + 1, j) ELSE 0

RECURSIVE CrcFrom(_, _, _)
CrcFrom(crc, s, i) ==
    IF i > Len(s) THEN crc
    ELSE LET next == CrcRange(crc, s, i, IF i + 15 < Len(s) THEN i + 15 ELSE Len(s))
         IN  IF next >= 0 THEN CrcFrom(next, s, i + 16) ELSE 0

CrcOf(s) == CrcFrom(0, s, 1)

HexChar(v) == IF v < 10 THEN CH.d0 + v ELSE CH.uA + (v - 10)
Hex4(n) == << HexChar(n \div 4096), HexChar((n \div 256) % 16),
              HexChar((n \div 16) % 16), HexChar(n % 16) >>

\* The terminator line the meter appends to the bytes sent so far: with the
\* checksum, with a wrong one, without one, none at all, with the first one,
\* two or three digits of the checksum only, with the last three digits and
\* a 'Z', with a '+' and the last three digits, with 0x and the last two
\* digits, and with the checksum and one digit more.
TermBytes(term, sent) ==
    LET crc == CrcOf(sent \o <<CH.bang>>)
    IN  CASE term = "good"  -> <<CH.bang>> \o Hex4(crc) \o CRLF
          [] term = "bad"   -> <<CH.bang>> \o Hex4((crc + 1) % LimbBase) \o CRLF
          [] term = "short" -> <<CH.bang>> \o CRLF
          [] term = "none"  -> <<>>
          [] term = "cut1"  -> <<CH.bang>> \o SubSeq(Hex4(crc), 1, 1) \o CRLF
          [] term = "cut2"  -> <<CH.bang>> \o SubSeq(Hex4(crc), 1, 2) \o CRLF
          [] term = "cut3"  -> <<CH.bang>> \o SubSeq(Hex4(crc), 1, 3) \o CRLF
          [] term = "tail"  -> <<CH.bang>> \o SubSeq(Hex4(crc), 2, 4) \o <<CH.uZ>> \o CRLF
          [] term = "plus"  -> <<CH.bang, CH.plus>> \o SubSeq(Hex4(crc), 2, 4) \o CRLF
          [] term = "prefix" -> <<CH.bang, CH.d0, CH.lx>> \o SubSeq(Hex4(crc), 3, 4) \o CRLF
          [] term = "more"  -> <<CH.bang>> \o Hex4(crc) \o <<CH.d0 + 7>> \o CRLF

\* s with bit `bit` of byte `pos` inverted.
FlipAt(s, pos, bit) == [s EXCEPT ![pos] = FlipBit(s[pos], bit)]

\* The bytes of a well-formed telegram with the body of f.
GoodTelegram(f) ==
    LET b == BodyBytes(f.body, f) IN b \o TermBytes("good", b)

\* The bytes the meter sends for f.
FeedBytes(f) ==
    CASE f.kind = "telegram" ->
            LET b == BodyBytes(f.body, f) IN b \o TermBytes(f.term, b)
      [] f.kind = "power" -> GoodTelegram(f)
      [] f.kind = "current" -> GoodTelegram(f)
      [] f.kind = "idle" ->
            (IF f.term = "bad"
             THEN BodyBytes(f.body, f) \o TermBytes("bad", BodyBytes(f.body, f))
             ELSE <<>>) \o <<f.pos>>
      [] f.kind = "flip"  -> FlipAt(GoodTelegram(f), f.pos, f.bit)
      [] f.kind = "cut"   ->
            SubSeq(GoodTelegram(f), 1, Len(GoodTelegram(f)) - f.pos)
      [] f.kind = "flood" -> Filler(f.pos) \o <<CH.bang>> \o CRLF
      [] f.kind = "late"  ->
            SubSeq(GoodTelegram(f), f.pos + 1, Len(GoodTelegram(f)))
      [] f.kind = "noise" -> <<CH.lx>>
      [] f.kind = "long"  ->
            LineBytes("pw1", f) \o Filler(OverLen - 21)
                \o (IF f.term = "bang" THEN <<CH.bang>> ELSE <<CH.lx>>)
      [] OTHER -> <<>>

\* The bodies and terminators of the telegrams of the byte stream.
StreamBodies == { <<"hdr">>, <<"hdr", "mid", "pw1">>, <<"hdr", "pw2">> }
StreamTerms == {"good", "bad", "short", "none"}
StreamMenu ==
    { Telegram(b, tm) : b \in StreamBodies, tm \in StreamTerms }
        \cup { Noise, OverLong("plain"), OverLong("bang") }

-----------------------------------------------------------------------------
(* State *)

VARIABLES
    dsmr_parser,     \* the parser state (dsmr_parser_t)
    dsmr_data,       \* the working record the parser writes
    dsmr_last_good,  \* the record the readers see
    rx,              \* bytes received on the data source, not yet read
    ret,             \* what dsmr_parse_byte returned for the last byte read
    returned,        \* the working record as dsmr_parse_byte left it then
    event,           \* how the last byte ended a frame: "ready", "rejected", "none"
    page,            \* the record fields the last step sent as the live page
    feed,            \* what the meter is sending (the chunk in rx)
    start,           \* the program's condition when that chunk began
    nready,          \* frame-ready returns since that chunk began
    nchunks,         \* chunks sent so far
    TCPClient,       \* the slots of the raw TCP tap
    call,            \* a function of the parser applied on its own
    hasClient,       \* TCP clients waiting to be accepted or still to come
    wd,              \* the mode, the timers and the counters of loop()
    web,             \* config, the EEPROM, the firmware and the last web request
    raw              \* the capture of the raw frame for the RAW page

vars == << dsmr_parser, dsmr_data, dsmr_last_good, rx, ret, returned, event,
           page, feed, start, nready, nchunks, TCPClient, call, hasClient,
           wd, web, raw >>

\* The constants of the software watchdog, in milliseconds.
WATCHDOG_TIMEOUT == 600000
WIFI_TIMEOUT == 300000
BOOT_GRACE_PERIOD == 300000

\* loop() uses bootTime, lastWiFiCheck, lastDataReceived and lastClientCheck
\* only in the differences now - bootTime, now - lastWiFiCheck, ... of
\* unsigned long values, which are the times elapsed since the assignments.
\* wd holds these times: sinceBoot, sinceWiFi, sinceData, sinceClient. It
\* holds as well apMode, whether WiFi.status() is WL_CONNECTED, activeClients
\* and prevActiveClients, which watchdog restarted the device ("none" while
\* it runs), and two times the program does not keep: sinceUp, since a loop
\* iteration last found WiFi connected, and sinceConn, since a slot of
\* TCPClient last held a connected client. at is the part of loop() that
\* runs next where the parts are taken one by one.
AfterSetup(ap) ==
    [apMode |-> ap, wifi |-> ~ap,
     sinceBoot |-> 0, sinceWiFi |-> 0, sinceData |-> 0, sinceClient |-> 0,
     activeClients |-> 0, prevActiveClients |-> 0, restart |-> "none",
     sinceUp |-> 0, sinceConn |-> 0, at |-> "watchdog"]

\* The device has not been restarted by a watchdog.
Running == wd.restart = "none"

\* config (AppConfig), as far as the web handlers are told apart by it: the
\* network to join, the credentials of the web interface and the data
\* source. The addresses and ports are left out.
DefaultConfig ==
    [wifiSsid |-> "", wwwUser |-> "admin", wwwPass |-> "admin",
     useTcpDataSource |-> FALSE]

\* The EEPROM: whether byte 0 holds MAGIC_KEY, and the configuration stored
\* from byte 1 on.
Stored(c) == [magic |-> TRUE, config |-> c]
ErasedEEPROM ==
    [magic |-> FALSE,
     config |-> [wifiSsid |-> "", wwwUser |-> "", wwwPass |-> "",
                 useTcpDataSource |-> FALSE]]

\* A request to the web server: its path, the credentials it carries
\* (has_auth is FALSE when it carries none) and its arguments.
NoRequest ==
    [path |-> "", has_auth |-> FALSE, user |-> "", pass |-> "",
     arg |-> "", arg_pass |-> ""]

\* The web side of the device after setup() read the configuration c.
WebAfterSetup(c) ==
    [config |-> c, EEPROM |-> Stored(c), firmware |-> "installed",
     request |-> NoRequest]

MAX_FRAME_SIZE == 1500

\* "Waiting for P1 Data..."
WaitingText ==
    <<87, 97, 105, 116, 105, 110, 103, 32, 102, 111, 114, 32, 80, 49, 32,
      68, 97, 116, 97, 46, 46, 46>>

\* The globals of the raw capture: lastFrameBuffer, tempBuffer,
\* tempOverflowed and frameEndDetected. raw holds as well what the program
\* does not keep: assigned, whether the last call of processDataByte
\* assigned lastFrameBuffer; since, how many bytes were received from the
\* last '/' on, or after the last '\n' that had a '!' between that point and
\* itself; bang, whether a '!' is among them.
RawAtBoot ==
    [lastFrameBuffer |-> WaitingText, tempBuffer |-> <<>>,
     tempOverflowed |-> FALSE, frameEndDetected |-> FALSE,
     assigned |-> FALSE, since |-> 0, bang |-> FALSE]

\* if (c == '/') { tempBuffer = ""; tempOverflowed = false;
\*                 frameEndDetected = false; }
raw_sync(r, c) ==
    IF c = CH.slash
    THEN [r EXCEPT !.tempBuffer = <<>>, !.tempOverflowed = FALSE,
                   !.frameEndDetected = FALSE]
    ELSE r

\* A faulty variant: the overflow empties the buffer and is not remembered.
raw_overflow_forgotten(r) ==
    IF Len(r.tempBuffer) >= MAX_FRAME_SIZE
    THEN [r EXCEPT !.tempBuffer = <<>>, !.frameEndDetected = FALSE]
    ELSE r

\* if (tempBuffer.length() >= MAX_FRAME_SIZE) { tempBuffer = "";
\*     tempOverflowed = true; frameEndDetected = false; }
raw_overflow(r) ==
    IF Len(r.tempBuffer) >= MAX_FRAME_SIZE
    THEN [r EXCEPT !.tempBuffer = <<>>, !.tempOverflowed = TRUE,
                   !.frameEndDetected = FALSE]
    ELSE r

\* tempBuffer += c; if (c == '!') frameEndDetected = true;
raw_append(r, c) ==
    [r EXCEPT !.tempBuffer = Append(@, c),
              !.frameEndDetected = IF c = CH.bang THEN TRUE ELSE @]

\* if (frameEndDetected && c == '\n') { if (!tempOverflowed)
\*     lastFrameBuffer = tempBuffer; tempBuffer = ""; tempOverflowed = false;
\*     frameEndDetected = false; }
raw_frame_end(r, c) ==
    IF r.frameEndDetected /\ c = CH.lf
    THEN [r EXCEPT !.lastFrameBuffer = IF ~r.tempOverflowed
                                       THEN r.tempBuffer ELSE @,
                   !.assigned = ~r.tempOverflowed,
                   !.tempBuffer = <<>>, !.tempOverflowed = FALSE,
                   !.frameEndDetected = FALSE]
    ELSE r

\* The bytes received since the last '/' or the last frame end, counted
\* from the byte stream alone.
raw_since(r, c) ==
    IF c = CH.slash THEN [r EXCEPT !.since = 1, !.bang = FALSE]
    ELSE IF c = CH.lf /\ r.bang THEN [r EXCEPT !.since = 0, !.bang = FALSE]
    ELSE [r EXCEPT !.since = @ + 1, !.bang = (@ \/ c = CH.bang)]

\* The raw capture of processDataByte(c).
raw_capture(r, c) ==
    raw_since(raw_frame_end(raw_append(raw_overflow(
                  raw_sync([r EXCEPT !.assigned = FALSE], c)), c), c), c)

\* The device in client mode right after setup(), no TCP client in sight.
InitDevice ==
    /\ wd = AfterSetup(FALSE)
    /\ hasClient = 0
    /\ web = WebAfterSetup(DefaultConfig)
    /\ raw = RawAtBoot

MAX_TCP_CLIENTS == 10

\* A slot of TCPClient: whether it holds a connected client, the bytes
\* written to that client, and the bytes of the chunk that were still to be
\* read when it was accepted.
NoClient == [connected |-> FALSE, written |-> <<>>, pending |-> <<>>]
NoClients == [i \in 1..MAX_TCP_CLIENTS |-> NoClient]

\* A client connected when the bytes rest of the chunk are still to be read.
NewClient(rest) == [connected |-> TRUE, written |-> <<>>, pending |-> rest]

\* A function applied on its own: its name, its arguments (a string, a
\* scale, a count of zeros appended) and, once applied, its results (v61 is
\* what the function of parser revision 6.1 returns).
NoCall ==
    [fn |-> "none", str |-> <<>>, numeral |-> NoNumeral, minus |-> FALSE,
     scale |-> 0, zeros |-> 0, done |-> FALSE,
     id |-> 0, value |-> [neg |-> FALSE, mag |-> Zero64],
     padded |-> [neg |-> FALSE, mag |-> Zero64],
     v61 |-> [neg |-> FALSE, mag |-> Zero64],
     extracted |-> NoValue]

NoPage == [sent |-> FALSE, view |-> EmptyData]
AtBoot == [idle |-> TRUE, fresh |-> TRUE, after |-> "boot", prev |-> NoFeed,
           seen |-> EmptyData]

\* The globals are zero-initialised and setup() calls dsmr_parser_init.
InitProgram ==
    /\ dsmr_parser = EmptyParser
    /\ dsmr_data = EmptyData
    /\ dsmr_last_good = EmptyData
    /\ ret = 0
    /\ returned = EmptyData
    /\ event = "none"
    /\ page = NoPage
    /\ nready = 0

Init ==
    /\ InitProgram
    /\ rx = <<>>
    /\ feed = NoFeed
    /\ start = AtBoot
    /\ nchunks = 0
    /\ TCPClient = NoClients
    /\ call = NoCall
    /\ InitDevice

-----------------------------------------------------------------------------
(* Operations *)

\* dsmr_parser_init(&dsmr_parser, &dsmr_data)
dsmr_parser_init == [parser |-> EmptyParser, data |-> EmptyData]

\* Whether processDataByte copies the working record d to dsmr_last_good.
publishes(d) == d.meter_id # <<>> /\ d.frame_complete = 1

\* A faulty variant: after frame-ready the parser is reinitialised and the
\* working record is left as it is.
after_parse_keep(s, r) ==
    IF r.ret = 1
    THEN [parser |-> EmptyParser,
          data |-> r.data,
          last_good |-> IF r.data.meter_id # <<>> /\ r.data.frame_complete = 1
                        THEN r.data ELSE s.last_good,
          ret |-> r.ret, returned |-> r.data]
    ELSE [parser |-> r.parser, data |-> r.data, last_good |-> s.last_good,
          ret |-> r.ret, returned |-> r.data]

\* A faulty variant: the working record is copied whenever it holds a meter
\* id, whatever dsmr_parse_byte returned.
after_parse_eager(s, r) ==
    [parser |-> IF r.ret = 1 THEN EmptyParser ELSE r.parser,
     data |-> IF r.ret = 1 THEN EmptyData ELSE r.data,
     last_good |-> IF r.data.meter_id # <<>> THEN r.data ELSE s.last_good,
     ret |-> r.ret, returned |-> r.data]

\* What processDataByte does once dsmr_parse_byte returned r, on the state
\* s = [parser, data, last_good]: the state afterwards, with the value
\* returned and the working record as the parser left it.
after_parse(s, r) ==
    IF r.ret = 1
    THEN [parser |-> dsmr_parser_init.parser,
          data |-> dsmr_parser_init.data,
          last_good |-> IF publishes(r.data) THEN r.data ELSE s.last_good,
          ret |-> r.ret, returned |-> r.data]
    ELSE [parser |-> r.parser, data |-> r.data, last_good |-> s.last_good,
          ret |-> r.ret, returned |-> r.data]

\* The parser part of processDataByte(c) on state s.
feed_byte(s, c) == after_parse(s, dsmr_parse_byte(s.parser, s.data, c))

\* loop(): while (Serial.available()) processDataByte(Serial.read());
Program == [parser |-> dsmr_parser, data |-> dsmr_data,
            last_good |-> dsmr_last_good]

\* The program state becomes s, the result of feed_byte.
Becomes(s) ==
    /\ dsmr_parser' = s.parser
    /\ dsmr_data' = s.data
    /\ dsmr_last_good' = s.last_good
    /\ ret' = s.ret
    /\ returned' = s.returned
    /\ event' = IF s.ret = 1 THEN "ready"
                ELSE IF dsmr_parser.frame_active = 1
                        /\ s.parser.frame_active = 0 THEN "rejected"
                ELSE "none"
    /\ nready' = nready + s.ret

\* A faulty variant: the byte is written to the first connected client only.
forward_first(clients, c) ==
    [i \in DOMAIN clients |->
        IF clients[i].connected /\ \A j \in 1..(i - 1) : ~clients[j].connected
        THEN [clients[i] EXCEPT !.written = Append(@, c)]
        ELSE clients[i]]

\* for (i = 0; i < MAX_TCP_CLIENTS; i++)
\*     if (TCPClient[i].connected()) TCPClient[i].write(c);
forward(clients, c) ==
    [i \in DOMAIN clients |->
        IF clients[i].connected
        THEN [clients[i] EXCEPT !.written = Append(@, c)]
        ELSE clients[i]]

\* if (!apMode) lastDataReceived = millis();
data_received(w) == IF ~w.apMode THEN [w EXCEPT !.sinceData = 0] ELSE w

processDataByte ==
    /\ Running
    /\ rx # <<>>
    /\ wd' = data_received(wd)
    /\ Becomes(feed_byte(Program, Head(rx)))
    /\ TCPClient' = forward(TCPClient, Head(rx))
    /\ raw' = raw_capture(raw, Head(rx))
    /\ rx' = Tail(rx)
    /\ page' = NoPage
    /\ UNCHANGED << feed, start, nchunks, call, hasClient, web >>

\* The fields of a record that handleLive reads.
live_view(d) ==
    [d EXCEPT !.equipment_id = <<>>, !.pf_total = 0, !.power_limit = 0,
              !.frame_complete = 0]

\* A faulty variant: the page is built from the working record.
live_record_working(s) == s.data

\* The record of the program state s that handleLive reads.
live_record(s) == s.last_good

\* handleLive(): the page is built from dsmr_last_good. The web server is
\* served from loop() between any two bytes of the data source.
handleLive ==
    /\ Running
    /\ page' = [sent |-> TRUE, view |-> live_view(live_record(Program))]
    /\ UNCHANGED << dsmr_parser, dsmr_data, dsmr_last_good, rx, ret, returned,
                    event, feed, start, nready, nchunks, TCPClient, call,
                    hasClient, wd, web, raw >>

\* The meter sends the next chunk f.
Receive(f) ==
    /\ Running
    /\ rx = <<>>
    /\ nchunks < MaxChunks
    /\ rx' = FeedBytes(f)
    /\ feed' = f
    /\ start' = [idle |-> dsmr_parser.frame_active = 0,
                 fresh |-> dsmr_parser = EmptyParser /\ dsmr_data = EmptyData,
                 after |-> IF nchunks = 0 THEN "boot" ELSE event,
                 prev |-> feed,
                 seen |-> dsmr_last_good]
    /\ nready' = 0
    /\ nchunks' = nchunks + 1
    /\ page' = NoPage
    /\ TCPClient' = [i \in DOMAIN TCPClient |->
                         IF TCPClient[i].connected
                         THEN NewClient(FeedBytes(f)) ELSE TCPClient[i]]
    /\ UNCHANGED << dsmr_parser, dsmr_data, dsmr_last_good, ret, returned, event,
                    call, hasClient, wd, web, raw >>

ReceiveChunk == \E f \in StreamMenu : Receive(f)

Next == ReceiveChunk \/ processDataByte \/ handleLive

Spec == Init /\ [][Next]_vars

-----------------------------------------------------------------------------
(* One chunk fed to a freshly initialised program *)

InitFeed(f) ==
    /\ InitProgram
    /\ rx = FeedBytes(f)
    /\ feed = f
    /\ start = AtBoot
    /\ nchunks = 1
    /\ TCPClient = NoClients
    /\ call = NoCall
    /\ InitDevice

NextFeed == processDataByte \/ handleLive

\* Well-formed telegrams: an empty line, codes the table does not hold, a
\* '/' inside a value, a line wider than the line buffer, a line of three
\* characters.
TelegramBodies ==
    { <<"hdr", "pw1", "ret">>,
      <<"hdr", "empty", "mid", "v2", "pf", "unk">>,
      <<"hdr", "slash", "ret", "short">>,
      <<"hdr", "wide", "mid">>,
      <<"hdr", "pw1", "noend", "unk", "paren", "short">>,
      <<"hdrlong", "midlong", "tslong">>,
      <<"hdr">> }

InitTelegram == \E b \in TelegramBodies : InitFeed(Telegram(b, "good"))

SpecTelegram == InitTelegram /\ [][NextFeed]_vars

\* The telegram of the specification's example and a telegram with a line
\* of three characters, with one bit of one byte of the body inverted. The
\* body ends with the '!' of the terminator line.
SampleBody == <<"hdr", "pw1", "ret">>
FlipBodies == { SampleBody, <<"hdr", "short">> }
BodyLen(b) == Len(BodyBytes(b, NoFeed)) + 1

InitFlip ==
    \E b \in FlipBodies : \E pos \in 1..BodyLen(b) : \E bit \in 0..7 :
        InitFeed(Flipped(b, pos, bit))

SpecFlip == InitFlip /\ [][NextFeed]_vars

\* Telegrams with the lines 1-0:1.7.0(X*kW) and 1-0:2.7.0(Y*kW).
IntParts ==
    { <<>>, <<48>>, <<48, 48>>, <<49>>, <<49, 50>>,
      <<50, 49, 52, 55>>,          \* 2147
      <<52, 50, 57, 52>> }         \* 4294
FracParts ==
    { <<>>, <<53>>, <<52, 50, 52>>, <<48, 48, 48>>,
      <<48, 48, 48, 48, 48, 49>>,  \* 000001
      <<52, 56, 51, 54, 52, 55>>,  \* 483647
      <<52, 56, 51, 54, 52, 56>>,  \* 483648
      <<57, 54, 55, 50, 57, 54>> } \* 967296
Numerals ==
    { [int |-> i, frac |-> f, dot |-> TRUE] :
          i \in IntParts, f \in FracParts \ {<<>>} }
      \cup { [int |-> i, frac |-> <<>>, dot |-> d] :
                 i \in IntParts \ {<<>>}, d \in BOOLEAN }
ZeroNumeral == [int |-> <<48, 48>>, frac |-> <<48, 48, 48>>, dot |-> TRUE]

InitPower ==
    \E x \in Numerals : \E y \in {x, ZeroNumeral} :
        InitFeed(PowerTelegram(x, y))

SpecPower == InitPower /\ [][NextFeed]_vars

-----------------------------------------------------------------------------
(* Reference run: a chunk fed to a freshly initialised parser and record *)

FreshProgram ==
    [parser |-> EmptyParser, data |-> EmptyData, last_good |-> EmptyData,
     ret |-> 0, returned |-> EmptyData]

\* feed_byte over bytes i..j of a chunk, up to the first frame-ready.
RECURSIVE RunRange(_, _, _, _)
RunRange(s, bytes, i, j) ==
    IF i > j \/ s.ret = 1 THEN s
    ELSE LET n == feed_byte(s, bytes[i])
         IN  IF n.ret = 0 THEN RunRange(n, bytes, i + 1, j) ELSE n

\* The same over the whole chunk, in runs of 16 bytes.
RECURSIVE RunFrom(_, _, _)
RunFrom(s, bytes, i) ==
    IF i > Len(bytes) \/ s.ret = 1 THEN s
    ELSE LET n == RunRange(s, bytes, i,
                           IF i + 15 < Len(bytes) THEN i + 15 ELSE Len(bytes))
         IN  IF n.ret = 0 THEN RunFrom(n, bytes, i + 16) ELSE n

FreshRun(bytes) == RunFrom(FreshProgram, bytes, 1)

-----------------------------------------------------------------------------
(* Properties *)

\* The step is processDataByte reading the byte at the head of rx.
ReadsByte == rx # <<>> /\ rx' = Tail(rx)

\* The C string in the line buffer.
Line == CStr(dsmr_parser.line_buffer)

\* The byte read is the '\n' that ends a terminator line with at least four
\* characters after the '!'.
EndsChecksumLine ==
    /\ ReadsByte
    /\ Head(rx) = CH.lf
    /\ dsmr_parser.frame_active = 1
    /\ Len(Line) >= 5
    /\ Line[1] = CH.bang

\* C1: when a terminator line has at least four characters after the '!',
\* frame_complete is set and frame-ready is returned only if those four
\* characters, read as a hexadecimal number, equal the accumulated CRC16; a
\* telegram whose transmitted checksum differs yields neither.
C1_ChecksumGate ==
    [][ /\ (EndsChecksumLine /\ (ret' = 1 \/ returned'.frame_complete = 1))
            => ToUint16(strtol16(SubSeq(Line, 2, 5))) = dsmr_parser.crc_calculated
        /\ (EndsChecksumLine
              /\ ToUint16(strtol16(SubSeq(Line, 2, 5))) # dsmr_parser.crc_calculated)
            => (ret' = 0 /\ returned'.frame_complete = 0
                  /\ dsmr_data'.frame_complete = 0) ]_vars

\* A telegram with a wrong checksum was read to its end and rejected.
C1_Witness ==
    /\ feed.kind = "telegram" /\ feed.term = "bad"
    /\ rx = <<>>
    /\ event = "rejected"

\* C2: a well-formed telegram fed byte by byte to a freshly initialised
\* parser yields frame-ready exactly once, on the final '\n', and 0 on every
\* earlier byte.
C2_ReadyOnce ==
    /\ nready = (IF rx = <<>> THEN 1 ELSE 0)
    /\ ret = (IF rx = <<>> THEN 1 ELSE 0)

\* The telegram with a line wider than the line buffer was read to its end.
C2_Witness ==
    /\ feed = Telegram(<<"hdr", "wide", "mid">>, "good")
    /\ rx = <<>>
    /\ ret = 1

\* The altered telegram never sets frame_complete nor returns frame-ready.
FlipRejected ==
    /\ nready = 0
    /\ ret = 0
    /\ returned.frame_complete = 0
    /\ dsmr_data.frame_complete = 0

\* The inverted bit turns its byte into '!'.
FlipMakesBang ==
    FlipBit(GoodTelegram(feed)[feed.pos], feed.bit) = CH.bang

C4_LastGoodKept ==
    [][ /\ (dsmr_last_good' # dsmr_last_good) => (ReadsByte /\ ret' = 1)
        /\ (feed'.kind = "telegram" /\ feed'.term = "bad")
            => dsmr_last_good' = start'.seen ]_vars

\* A published record survived a telegram with a wrong checksum.
C4_Witness ==
    /\ feed.kind = "telegram" /\ feed.term = "bad"
    /\ rx = <<>>
    /\ event = "rejected"
    /\ dsmr_last_good.frame_complete = 1
    /\ dsmr_last_good = start.seen

\* C5: dsmr_last_good is empty as at startup or complete, a copy of the
\* working record taken at a frame-ready return; handleLive builds its page
\* from dsmr_last_good, never from the working record.
C5_CompleteOrEmpty ==
    [][ /\ (dsmr_last_good' = EmptyData \/ dsmr_last_good'.frame_complete = 1)
        /\ (dsmr_last_good' # dsmr_last_good)
            => (ret' = 1 /\ dsmr_last_good' = returned')
        /\ page'.sent => page'.view = live_view(dsmr_last_good') ]_vars

\* A page was sent while the working record was partly filled by the next
\* telegram and a complete record was published.
C5_Witness ==
    /\ page.sent
    /\ dsmr_last_good.frame_complete = 1
    /\ dsmr_data # EmptyData
    /\ dsmr_data.frame_complete = 0

\* C6: a '/' read while a frame is active abandons the partial frame and
\* starts a new one: the line buffer and the CRC accumulator are restarted
\* from that '/' as they are in the Idle state.
C6_Resync ==
    [][ (ReadsByte /\ Head(rx) = CH.slash /\ dsmr_parser.frame_active = 1)
        => dsmr_parser' = [ line_buffer |-> <<CH.slash>>, line_index |-> 1,
                            frame_active |-> 1,
                            crc_calculated |-> crc16_update(0, CH.slash),
                            crc_done |-> 0 ] ]_vars

\* The chunk is a well-formed telegram, read to its end.
GoodTelegramRead ==
    feed.kind = "telegram" /\ feed.term = "good" /\ rx = <<>>

\* C7: after a completed frame, accepted or rejected for its checksum, a
\* well-formed telegram yields the same frame-ready event and the same
\* working record at frame-ready as it does on a freshly initialised parser
\* and record.
C7_SameAsFresh ==
    (GoodTelegramRead /\ start.prev.kind = "telegram"
        /\ start.after \in {"ready", "rejected"})
    => /\ nready = 1
       /\ ret = FreshRun(FeedBytes(feed)).ret
       /\ returned = FreshRun(FeedBytes(feed)).returned

\* r with the field the over-long line addresses left out.
BesidesPower(r) == [r EXCEPT !.current_power = 0]

\* C8: after an over-long line (OverLen bytes of a current-power line with
\* no '\n'), the next well-formed telegram yields frame-ready with its own
\* values, no field but the one the over-long line addresses differing.
C8_Recovers ==
    (GoodTelegramRead /\ start.prev.kind = "long")
    => /\ nready = 1
       /\ ret = 1
       /\ BesidesPower(returned)
            = BesidesPower(FreshRun(FeedBytes(feed)).returned)

\* The byte read finds the line buffer full and is neither '\n' nor '\r'.
DropsByte ==
    /\ ReadsByte
    /\ dsmr_parser.frame_active = 1
    /\ dsmr_parser.line_index = SIZEOF.line_buffer - 1
    /\ Head(rx) \notin {CH.lf, CH.cr}

\* line_index stays within the line buffer, which holds line_index bytes.
LineWithinBuffer ==
    /\ dsmr_parser'.line_index <= SIZEOF.line_buffer - 1
    /\ Len(dsmr_parser'.line_buffer) = dsmr_parser'.line_index

\* C9 as stated: line_index is at most 79, a byte arriving at line_index 79
\* is dropped, and the dropped byte changes no parser field other than the
\* CRC accumulator.
C9_DropChangesCrcOnly ==
    [][ /\ LineWithinBuffer
        /\ DropsByte
            => dsmr_parser' = [dsmr_parser EXCEPT
                                 !.crc_calculated = dsmr_parser'.crc_calculated]
      ]_vars

\* C9, amended: line_index is at most 79, a byte arriving at line_index 79
\* is dropped, and the dropped byte changes no parser field other than the
\* CRC state: the accumulator and, for a dropped '!', the crc_done flag.
C9_DropChangesCrcState ==
    [][ /\ LineWithinBuffer
        /\ DropsByte
            => /\ dsmr_parser' = [dsmr_parser EXCEPT
                                    !.crc_calculated = dsmr_parser'.crc_calculated,
                                    !.crc_done = dsmr_parser'.crc_done]
               /\ (Head(rx) # CH.bang
                     => dsmr_parser'.crc_done = dsmr_parser.crc_done)
      ]_vars

\* An over-long line was read to its end, its last bytes dropped.
C9_Witness ==
    /\ feed.kind = "long"
    /\ rx = <<>>
    /\ dsmr_parser.line_index = SIZEOF.line_buffer - 1
    /\ dsmr_parser.crc_done = 1

\* The decimal digits of a natural number.
RECURSIVE DigitsOf(_)
DigitsOf(n) ==
    IF n < 10 THEN <<CH.d0 + n>>
    ELSE Append(DigitsOf(n \div 10), CH.d0 + (n % 10))

\* The decimal digits of an int32_t, a negative one marked by a '-'.
Decimal(v) == IF v < 0 THEN <<CH.minus>> ELSE DigitsOf(v)

\* s without its leading zeros (one digit at least is kept).
RECURSIVE StripZeros(_)
StripZeros(s) ==
    IF Len(s) > 1 /\ s[1] = CH.d0 THEN StripZeros(Tail(s)) ELSE s

\* The digits of n times 10^6: the integer digits of n followed by its
\* fractional digits, filled with zeros to six.
ExactMicro(n) ==
    StripZeros(n.int \o n.frac \o [i \in 1..(6 - Len(n.frac)) |-> CH.d0])

\* Whether the number with digits s is greater than the one with digits u
\* (neither with leading zeros).
RECURSIVE DigitsGreater(_, _)
DigitsGreater(s, u) ==
    IF Len(s) # Len(u) THEN Len(s) > Len(u)
    ELSE IF s = <<>> THEN FALSE
    ELSE IF s[1] # u[1] THEN s[1] > u[1]
    ELSE DigitsGreater(Tail(s), Tail(u))

INT32_MAX == 2147483647
FitsInt32(s) == ~DigitsGreater(s, DigitsOf(INT32_MAX))

\* The chunk is a telegram with the two power lines, read to frame-ready.
PowerRead == feed.kind = "power" /\ ret = 1

\* C10 as stated: for the data lines 1-0:1.7.0(X*kW) and 1-0:2.7.0(Y*kW),
\* X and Y decimal numerals of at most 6 fractional digits, the working
\* record at frame-ready has current_power = X * 10^6 and
\* current_return = Y * 10^6.
C10_ExactPower ==
    PowerRead
    => /\ Decimal(returned.current_power) = ExactMicro(feed.x)
       /\ Decimal(returned.current_return) = ExactMicro(feed.y)

\* C10, amended: the same for the values that a signed 32-bit field holds:
\* current_power = X * 10^6 when X * 10^6 is at most 2^31 - 1, and
\* current_return = Y * 10^6 when Y * 10^6 is at most 2^31 - 1.
C10_PowerInRange ==
    PowerRead
    => /\ FitsInt32(ExactMicro(feed.x))
            => Decimal(returned.current_power) = ExactMicro(feed.x)
       /\ FitsInt32(ExactMicro(feed.y))
            => Decimal(returned.current_return) = ExactMicro(feed.y)

\* The greatest value of the field was decoded.
C10_Witness ==
    /\ PowerRead
    /\ returned.current_power = INT32_MAX
    /\ returned.current_return = INT32_MAX

\* ---------------------------------------------------------------------------
\* Claim C11
\* ---------------------------------------------------------------------------

\* The identifier text of a telegram's first line: the line without its '/'.
IdentifierText == Tail(LineBytes(Head(feed.body), feed))

\* C11: for a telegram whose first line is '/' followed by an identifier text
\* T, the equipment-id field of the record at frame-ready equals T, the
\* identifier without the leading '/'.
C11_EquipmentIdIsIdentifier ==
    (feed.kind = "telegram" /\ ret = 1) => returned.equipment_id = IdentifierText

-----------------------------------------------------------------------------
(* Functions of the parser applied on their own *)

\* The program at rest, with the function call c about to be made.
InitCall(c) ==
    /\ InitProgram
    /\ rx = <<>>
    /\ feed = NoFeed
    /\ start = AtBoot
    /\ nchunks = 0
    /\ TCPClient = NoClients
    /\ call = c
    /\ InitDevice

Resting ==
    UNCHANGED << dsmr_parser, dsmr_data, dsmr_last_good, rx, ret, returned,
                 event, page, feed, start, nready, nchunks, TCPClient,
                 hasClient, wd, web, raw >>

\* ---------------------------------------------------------------------------
\* Claim C12
\* ---------------------------------------------------------------------------

\* The strings given to match_obis_code: every string of the table, every
\* proper prefix of one (the empty string among them), every one followed by
\* an extra character, and every one with its last character changed.
ObisStrings == { OBIS_TABLE[i].obis_string : i \in 1..OBIS_TABLE_COUNT }
ProperPrefixes(s) == { SubSeq(s, 1, n) : n \in 0..(Len(s) - 1) }
MatchInputs ==
    ObisStrings
    \cup UNION { ProperPrefixes(s) : s \in ObisStrings }
    \cup { s \o <<c>> : s \in ObisStrings, c \in {48, CH.lparen} }
    \cup { [s EXCEPT ![Len(s)] = 57] : s \in ObisStrings }

MatchCall(s) == [NoCall EXCEPT !.fn = "match", !.str = s]

ApplyMatch ==
    /\ call.fn = "match"
    /\ ~call.done
    /\ call' = [call EXCEPT !.done = TRUE, !.id = match_obis_code(call.str)]
    /\ Resting

InitMatch == \E s \in MatchInputs : InitCall(MatchCall(s))

SpecMatch == InitMatch /\ [][ApplyMatch]_vars

\* The tags of the table entries whose string is s, byte for byte.
TagsOf(s) ==
    { OBIS_TABLE[i].obis_id :
        i \in { j \in 1..OBIS_TABLE_COUNT : OBIS_TABLE[j].obis_string = s } }

\* C12: match_obis_code returns the tag of a table entry if and only if its
\* argument is byte-for-byte equal to that entry's string, and OBIS_ID_NONE
\* for every other string: the empty string, every proper prefix of an entry
\* and every entry followed by extra characters.
C12_ExactMatch ==
    (call.fn = "match" /\ call.done) =>
        /\ TagsOf(call.str) # {} => call.id \in TagsOf(call.str)
        /\ TagsOf(call.str) = {} => call.id = OBIS_ID.NONE
        /\ call.str = OBIS_CURRENT_POWER => call.id = OBIS_ID.CURRENT_POWER

\* "1-0:1.7.00" has been looked up and resolved to none.
C12_Witness ==
    /\ call.fn = "match"
    /\ call.done
    /\ call.str = OBIS_CURRENT_POWER \o <<48>>
    /\ call.id = OBIS_ID.NONE

\* ---------------------------------------------------------------------------
\* Claims C13 and C14
\* ---------------------------------------------------------------------------

MaxZeros == 2

\* The numerals given to ascii_to_fixed: integer digits D, fractional digits
\* F, with or without a '-', with or without a '.' where F is empty.
FixedInts ==
    { <<>>, <<48>>, <<48, 48>>, <<49>>, <<50, 50, 57>>,
      <<52, 50, 57, 52, 57, 54, 55, 50, 57, 54>>,                 \* 2^32
      <<57, 50, 50, 51, 51, 55, 50, 48, 51, 54, 56, 53, 52>>,     \* 9223372036854
      <<57, 50, 50, 51, 51, 55, 50, 48, 51, 54, 56, 53, 53>>,     \* 9223372036855
      <<57, 50, 50, 51, 51, 55, 50, 48, 51, 54, 56, 53, 52,
        55, 55, 53, 56, 48, 55>>,                                 \* 2^63 - 1
      <<49, 56, 52, 52, 54, 55, 52, 52, 48, 55, 51, 55, 48, 57,
        53, 53, 49, 54, 49, 54>> }                                \* 2^64
FixedFracs ==
    { <<>>, <<53>>, <<53, 48>>, <<52, 50, 52>>,
      <<48, 48, 48, 48, 48, 49>>,       \* 000001
      <<55, 55, 53, 56, 48, 55>>,       \* 775807
      <<55, 55, 53, 56, 48, 56>>,       \* 775808
      <<49, 50, 51, 52, 53, 54, 55>>,   \* 1234567
      <<57, 57, 57, 57, 57, 57, 57, 57>> }
FixedNumerals ==
    { [int |-> i, frac |-> f, dot |-> TRUE] : i \in FixedInts, f \in FixedFracs }
      \cup { [int |-> i, frac |-> <<>>, dot |-> FALSE] : i \in FixedInts \ {<<>>} }

\* The text of numeral n, with a '-' before it or not, and with k zeros
\* appended to its fractional part.
Zeros(k) == [i \in 1..k |-> CH.d0]
FixedText(minus, n, k) ==
    (IF minus THEN <<CH.minus>> ELSE <<>>)
    \o n.int
    \o (IF n.dot \/ k > 0 THEN <<CH.dot>> ELSE <<>>)
    \o n.frac \o Zeros(k)

FixedCall(minus, n, scale, k) ==
    [NoCall EXCEPT !.fn = "fixed", !.str = FixedText(minus, n, 0),
                   !.numeral = n, !.minus = minus, !.scale = scale,
                   !.zeros = k]

\* The text of the call with its zeros appended.
PaddedText == FixedText(call.minus, call.numeral, call.zeros)

\* ascii_to_fixed(str, scale) and ascii_to_fixed of str with the zeros
\* appended, scale.
ApplyFixed ==
    /\ call.fn = "fixed"
    /\ ~call.done
    /\ \E v \in fixed_outcomes(call.str, call.scale) :
       \E w \in fixed_outcomes(PaddedText, call.scale) :
           call' = [call EXCEPT !.done = TRUE, !.value = v, !.padded = w]
    /\ Resting

InitFixed ==
    \E n \in FixedNumerals : \E minus \in BOOLEAN :
    \E scale \in {2, 3, 6} : \E k \in 1..MaxZeros :
        InitCall(FixedCall(minus, n, scale, k))

SpecFixed == InitFixed /\ [][ApplyFixed]_vars

\* x modulo d, for 1 <= d <= 10000.
Rem64(x, d) ==
    LET t3 == (x[4] % d) * LimbBase + x[3]
        t2 == (t3 % d) * LimbBase + x[2]
        t1 == (t2 % d) * LimbBase + x[1]
    IN  t1 % d

\* The decimal digits of a 64-bit magnitude.
RECURSIVE Digits64(_)
Digits64(x) ==
    IF x = Zero64 THEN <<>>
    ELSE Append(Digits64(DivSmall64(x, 10)), CH.d0 + Rem64(x, 10))
Decimal64(x) == IF x = Zero64 THEN <<CH.d0>> ELSE Digits64(x)

\* The digits of D * 10^6 + F, F cut to six digits and filled with zeros
\* to six.
FirstSix(s) == SubSeq(s, 1, IF Len(s) < 6 THEN Len(s) ELSE 6)
MicroDigits(n) == ExactMicro([n EXCEPT !.frac = FirstSix(@)])

INT64_MAX_DIGITS == Decimal64(INT64_MAX)
FitsInt64(s) == ~DigitsGreater(s, INT64_MAX_DIGITS)

\* The value returned is sign times the number with digits s.
IsSigned(v, minus, s) ==
    /\ Decimal64(v.mag) = s
    /\ v.neg = (minus /\ s # <<CH.d0>>)

FixedDone(scale) == call.fn = "fixed" /\ call.done /\ call.scale = scale

\* C13 as stated: for every decimal numeral "D.F" with an optional leading
\* '-' and D within the 64-bit range, ascii_to_fixed(str, 6) returns sign
\* times (D * 10^6 + F right-padded with zeros to 6 digits), fractional
\* digits beyond the sixth not changing the result.
C13_ExactForInt64D ==
    (FixedDone(6) /\ FitsInt64(StripZeros(call.numeral.int)))
    => IsSigned(call.value, call.minus, MicroDigits(call.numeral))

\* C13: for every decimal numeral "D.F" with an optional leading '-' where
\* D * 10^6 + F (F cut to six digits and right-padded to six) is within the
\* range of int64_t, ascii_to_fixed(str, 6) returns sign times that number;
\* fractional digits beyond the sixth do not change the result.
C13_ExactInRange ==
    (FixedDone(6) /\ FitsInt64(MicroDigits(call.numeral)))
    => IsSigned(call.value, call.minus, MicroDigits(call.numeral))

\* "-229.1234567" has been converted at scale 6 to -229123456.
C13_Witness ==
    /\ FixedDone(6)
    /\ call.str = <<CH.minus, 50, 50, 57, CH.dot, 49, 50, 51, 52, 53, 54, 55>>
    /\ call.value = [neg |-> TRUE, mag |-> <<9600, 3496, 0, 0>>]

\* C14: for every decimal numeral s and every scale in {2, 3, 6}, appending
\* trailing zeros to the fractional part of s does not change
\* ascii_to_fixed(s, scale). Where the conversion of s overflows the two
\* calls are compared as the wrapping arithmetic computes them.
C14_TrailingZeros ==
    (call.fn = "fixed" /\ call.done /\ call.scale \in {2, 3, 6})
    => /\ ascii_to_fixed(call.str, call.scale)
              = ascii_to_fixed(PaddedText, call.scale)
       /\ ~fixed_overflows(call.str) => call.value = call.padded

\* "229.5" and "229.50" have been converted at scale 2, both to 22950.
C14_Witness ==
    /\ FixedDone(2)
    /\ call.str = <<50, 50, 57, CH.dot, 53>>
    /\ PaddedText = <<50, 50, 57, CH.dot, 53, 48>>
    /\ call.value = [neg |-> FALSE, mag |-> <<22950, 0, 0, 0>>]
    /\ call.padded = call.value

\* ---------------------------------------------------------------------------
\* Claim C15
\* ---------------------------------------------------------------------------

\* The byte read is the '\n' that ends a terminator line of '!' alone.
EndsBareTerminator ==
    /\ ReadsByte
    /\ Head(rx) = CH.lf
    /\ dsmr_parser.frame_active = 1
    /\ Line = <<CH.bang>>

\* C15: a terminator line that consists of '!' alone, with no trailing
\* checksum characters, is accepted unconditionally: frame_complete is set
\* and frame-ready is returned on its '\n' whatever the accumulated CRC is.
C15_BareTerminator ==
    [][ EndsBareTerminator
          => (ret' = 1 /\ returned'.frame_complete = 1) ]_vars

\* A telegram ending in "!\r\n" was read to frame-ready by a parser that was
\* in a frame when the telegram began, its CRC accumulated over both.
C15_Witness ==
    /\ feed.kind = "telegram" /\ feed.term = "short"
    /\ ~start.idle
    /\ rx = <<>>
    /\ ret = 1
    /\ returned.frame_complete = 1

\* ---------------------------------------------------------------------------
\* Claim C16
\* ---------------------------------------------------------------------------

Occurs(c, s) == \E i \in 1..Len(s) : s[i] = c

\* The text of s before its first '(' and the text after it.
BeforeParen(s) == SubSeq(s, 1, IndexFrom(s, CH.lparen, 1) - 1)
AfterParen(s) == SubSeq(s, IndexFrom(s, CH.lparen, 1) + 1, Len(s))

IsEquipmentLine(s) ==
    s # <<>> /\ (s[1] = CH.slash \/ IsUpper(s[1])) /\ ~Occurs(CH.colon, s)
IsTerminatorLine(s) == s # <<>> /\ s[1] = CH.bang

\* A line that is neither an equipment-id line nor a terminator line and
\* that has no '(', or whose text before the first '(' is not in the OBIS
\* table, or whose text after it holds neither ')' nor '*'.
IgnoredLine(s) ==
    /\ ~IsEquipmentLine(s)
    /\ ~IsTerminatorLine(s)
    /\ \/ ~Occurs(CH.lparen, s)
       \/ BeforeParen(s) \notin ObisStrings
       \/ ~Occurs(CH.rparen, AfterParen(s)) /\ ~Occurs(CH.star, AfterParen(s))

\* The byte read is the '\n' that completes a line in a frame.
CompletesLine ==
    /\ ReadsByte
    /\ Head(rx) = CH.lf
    /\ dsmr_parser.frame_active = 1

\* C16: a completed line that is neither an equipment-id line nor a
\* terminator line and that has no '(', or whose text before the first '('
\* is not in the OBIS table, or whose text after the first '(' contains
\* neither ')' nor '*', leaves every field and flag of the working record
\* unchanged and raises no frame-ready.
C16_IgnoredLines ==
    [][ (CompletesLine /\ IgnoredLine(Line))
          => (dsmr_data' = dsmr_data /\ ret' = 0) ]_vars

\* The line 1-0:1.7.0(00.999 was completed after 1-0:1.7.0(00.424*kW) and
\* the power read from the latter is still in the working record.
C16_Witness ==
    /\ feed.kind = "telegram"
    /\ Len(feed.body) >= 4 /\ feed.body[3] = "noend"
    /\ dsmr_parser.line_index = 0
    /\ Len(rx) >= 24 /\ SubSeq(rx, 1, 24) = LineBytes("unk", feed)
    /\ dsmr_data.current_power = 424000
    /\ ret = 0

\* ---------------------------------------------------------------------------
\* Claim C17
\* ---------------------------------------------------------------------------

\* The lines given to extract_value, each one short enough for the line
\* buffer: a code, then nothing or a '(' with a value and an ending.
ExtractCodes == { <<>>, OBIS_CURRENT_POWER, <<49, 65, 66>> }
ExtractValues ==
    { <<>>, <<48, 48, CH.dot, 52, 50, 52>>,       \* 00.424
      <<65, CH.lparen, 66>>,                      \* A(B
      Filler(60) }
ExtractEndings ==
    { <<>>, <<CH.rparen>>, <<CH.star>>, KW,
      <<CH.star, 107, 87, 104>>,                  \* *kWh
      <<CH.rparen, CH.star>>,                     \* )*
      <<CH.rparen, CH.lparen, 49, CH.rparen>> }   \* )(1)
ExtractInputs ==
    { c \o <<CH.lparen>> \o v \o e :
          c \in ExtractCodes, v \in ExtractValues, e \in ExtractEndings }
      \cup ExtractCodes
      \cup { c \o <<CH.rparen>> : c \in ExtractCodes }
      \cup { c \o KW : c \in ExtractCodes }

ExtractCall(s) == [NoCall EXCEPT !.fn = "extract", !.str = s]

ApplyExtract ==
    /\ call.fn = "extract"
    /\ ~call.done
    /\ call' = [call EXCEPT !.done = TRUE, !.extracted = extract_value(call.str)]
    /\ Resting

InitExtract == \E s \in ExtractInputs : InitCall(ExtractCall(s))

SpecExtract == InitExtract /\ [][ApplyExtract]_vars

\* s has a '(' and a ')' or a '*' after the first one.
HasValue(s) ==
    /\ Occurs(CH.lparen, s)
    /\ Occurs(CH.rparen, AfterParen(s)) \/ Occurs(CH.star, AfterParen(s))

\* v is the text after the first '(' of s up to the first ')' or '*'.
IsValueOf(v, s) ==
    /\ Len(v) < Len(AfterParen(s))
    /\ v = SubSeq(AfterParen(s), 1, Len(v))
    /\ ~Occurs(CH.rparen, v)
    /\ ~Occurs(CH.star, v)
    /\ AfterParen(s)[Len(v) + 1] \in {CH.rparen, CH.star}

\* C17: extract_value returns exactly the characters between the first '('
\* of the line and the first of ')' or '*' that follows it, whichever comes
\* first; it returns no match when the line has no '(' or when neither ')'
\* nor '*' follows the '('; and it never modifies the input line.
C17_ExtractsValue ==
    [][ (call.fn = "extract" /\ ~call.done /\ call'.done)
          => /\ call'.str = call.str
             /\ Len(call.str) < SIZEOF.line_buffer
             /\ HasValue(call.str)
                  => (call'.extracted.ok
                        /\ IsValueOf(call'.extracted.value, call.str))
             /\ ~HasValue(call.str) => call'.extracted = NoValue ]_vars

\* The value of 1-0:1.7.0(00.424*kW) has been extracted as 00.424.
C17_Witness ==
    /\ call.fn = "extract"
    /\ call.done
    /\ call.str = OBIS_CURRENT_POWER \o <<CH.lparen, 48, 48, CH.dot, 52, 50, 52>> \o KW
    /\ call.extracted = [ok |-> TRUE, value |-> <<48, 48, CH.dot, 52, 50, 52>>]

\* ---------------------------------------------------------------------------
\* Claim C18
\* ---------------------------------------------------------------------------

\* The first n characters of s.
Truncated(s, n) == SubSeq(s, 1, IF Len(s) < n THEN Len(s) ELSE n)

\* The completed line carries the code obis and a value.
CompletesValueOf(obis) ==
    /\ CompletesLine
    /\ ~IsEquipmentLine(Line)
    /\ HasValue(Line)
    /\ BeforeParen(Line) = obis

\* C18: the text fields of the record have maximum lengths of 16 characters
\* (meter identifier), 32 characters (equipment identifier) and 13
\* characters (timestamp): for every input line the stored text is the
\* value truncated to that maximum.
C18_TextFieldLengths ==
    [][ /\ CompletesValueOf(OBIS_METER_ID)
            => dsmr_data'.meter_id = Truncated(extract_value(Line).value, 16)
        /\ CompletesValueOf(OBIS_TIMESTAMP)
            => dsmr_data'.timestamp = Truncated(extract_value(Line).value, 13)
        /\ (CompletesLine /\ IsEquipmentLine(Line))
            => dsmr_data'.equipment_id = Truncated(Line, 32) ]_vars

\* ---------------------------------------------------------------------------
\* Claim C19
\* ---------------------------------------------------------------------------

\* Telegrams with the lines 1-0:31.7.0(X*A), 1-0:51.7.0(Y*A) and
\* 1-0:71.7.0(X*A), X and Y of at most two integer digits.
CurrentInts ==
    { <<48>>, <<49>>, <<49, 54>>, <<50, 53>>, <<51, 50>>, <<51, 51>>,
      <<52, 48>>, <<57, 57>> }
CurrentFracs ==
    { <<>>, <<53>>, <<55, 54, 55>>, <<55, 54, 56>>, <<55, 54, 55, 57>>,
      <<57, 57, 57>> }
CurrentNumerals ==
    { [int |-> i, frac |-> f, dot |-> TRUE] :
          i \in CurrentInts, f \in CurrentFracs \ {<<>>} }
      \cup { [int |-> i, frac |-> <<>>, dot |-> FALSE] : i \in CurrentInts }
ZeroCurrent == [int |-> <<48>>, frac |-> <<>>, dot |-> FALSE]

InitCurrent ==
    \E x \in CurrentNumerals : \E y \in {x, ZeroCurrent} :
        InitFeed(CurrentTelegram(x, y))

SpecCurrent == InitCurrent /\ [][NextFeed]_vars

\* The digits of n times 1000 truncated to an integer: the integer digits
\* of n followed by its first three fractional digits, filled with zeros to
\* three.
FirstThree(s) == SubSeq(s, 1, IF Len(s) < 3 THEN Len(s) ELSE 3)
ExactMilli(n) ==
    StripZeros(n.int \o FirstThree(n.frac)
                     \o [i \in 1..(3 - Len(FirstThree(n.frac))) |-> CH.d0])

\* C19: for every per-phase current line 1-0:31.7.0(A*A) (and the L2/L3
\* variants) with A a non-negative decimal numeral of at most two integer
\* digits, the signed 16-bit field current_l1 (l2, l3) holds A times 1000
\* truncated to an integer.
C19_ExactCurrent ==
    (feed.kind = "current" /\ ret = 1)
    => /\ Decimal(returned.current_l1) = ExactMilli(feed.x)
       /\ Decimal(returned.current_l2) = ExactMilli(feed.y)
       /\ Decimal(returned.current_l3) = ExactMilli(feed.x)

-----------------------------------------------------------------------------
(* The raw TCP tap *)

\* The first slot of clients that holds no connected client, 0 if none.
FreeSlot(clients) ==
    LET free == { i \in DOMAIN clients : ~clients[i].connected }
    IN  IF free = {} THEN 0 ELSE CHOOSE i \in free : \A j \in free : i <= j

\* A faulty variant: with every slot taken the new client takes the last.
accept_last(clients, rest) ==
    IF FreeSlot(clients) = 0
    THEN [clients EXCEPT ![MAX_TCP_CLIENTS] = NewClient(rest)]
    ELSE [clients EXCEPT ![FreeSlot(clients)] = NewClient(rest)]

\* The slots after the for loop that places the new client: the client
\* takes the first slot that is empty or disconnected; with every slot taken
\* it is dropped.
accept(clients, rest) ==
    IF FreeSlot(clients) = 0 THEN clients
    ELSE [clients EXCEPT ![FreeSlot(clients)] = NewClient(rest)]

\* loop(): if (tcpServer.hasClient()) { newClient = tcpServer.accept(); ... }
tcpServer_accept ==
    /\ Running
    /\ hasClient > 0
    /\ hasClient' = hasClient - 1
    /\ TCPClient' = accept(TCPClient, rx)
    /\ wd' = IF FreeSlot(TCPClient) = 0 THEN wd ELSE [wd EXCEPT !.sinceConn = 0]
    /\ UNCHANGED << dsmr_parser, dsmr_data, dsmr_last_good, rx, ret, returned,
                    event, page, feed, start, nready, nchunks, call, web, raw >>

\* The client of slot i closes its connection.
ClientDisconnects ==
    \E i \in DOMAIN TCPClient :
        /\ Running
        /\ TCPClient[i].connected
        /\ TCPClient' = [TCPClient EXCEPT ![i] = NoClient]
        /\ UNCHANGED << dsmr_parser, dsmr_data, dsmr_last_good, rx, ret,
                        returned, event, page, feed, start, nready, nchunks,
                        call, hasClient, wd, web, raw >>

\* One chunk sent to a fresh program with the clients of slots c connected.
TapChunks ==
    { Noise, Telegram(<<"hdr">>, "bad"), Telegram(<<"hdr", "pw1">>, "good"),
      OverLong("plain") }
TapSlots == { {}, {1}, {2, 5} }

InitTap ==
    \E f \in TapChunks : \E c \in TapSlots :
        /\ InitProgram
        /\ rx = FeedBytes(f)
        /\ feed = f
        /\ start = AtBoot
        /\ nchunks = 1
        /\ TCPClient = [i \in 1..MAX_TCP_CLIENTS |->
                           IF i \in c THEN NewClient(FeedBytes(f))
                           ELSE NoClient]
        /\ call = NoCall
        /\ wd = AfterSetup(FALSE)
        /\ web = WebAfterSetup(DefaultConfig)
        /\ raw = RawAtBoot
        /\ hasClient \in {0, 1}

NextTap == processDataByte \/ tcpServer_accept \/ ClientDisconnects

SpecTap == InitTap /\ [][NextTap]_vars

\* ---------------------------------------------------------------------------
\* Claim C20
\* ---------------------------------------------------------------------------

\* The bytes handed to processDataByte since the bytes rest of the chunk
\* were still to be read: rest without the bytes still to be read now.
HandedSince(rest) == SubSeq(rest, 1, Len(rest) - Len(rx))

\* C20: for every input byte handed to processDataByte, every TCP client
\* that is connected at that moment is written that same unmodified byte
\* exactly once, in arrival order, whatever the parser does with the byte:
\* a connected client has been written the bytes handed over since it
\* connected, no more and no fewer.
C20_TapSeesEveryByte ==
    \A i \in DOMAIN TCPClient :
        TCPClient[i].connected
            => TCPClient[i].written = HandedSince(TCPClient[i].pending)

\* An over-long line was read to its end with the clients of slots 2 and 5
\* connected throughout and a client accepted into slot 1 on the way.
C20_Witness ==
    /\ feed.kind = "long"
    /\ rx = <<>>
    /\ TCPClient[2].connected /\ TCPClient[2].written = FeedBytes(feed)
    /\ TCPClient[5].connected /\ TCPClient[5].written = FeedBytes(feed)
    /\ TCPClient[1].connected
    /\ TCPClient[1].written # <<>>
    /\ Len(TCPClient[1].written) < Len(FeedBytes(feed))

\* ---------------------------------------------------------------------------
\* Claim C21
\* ---------------------------------------------------------------------------

\* Every byte value sent to an idle parser, fresh or left idle by a telegram
\* with a wrong checksum.
InitIdle ==
    \E b \in Byte : \E term \in {"none", "bad"} : InitFeed(IdleByte(b, term))

SpecIdle == InitIdle /\ [][NextFeed]_vars

\* The byte read comes to a parser in the Idle state.
ReadsIdle == ReadsByte /\ dsmr_parser.frame_active = 0

\* '/', 'A'..'Z' or '0'..'9'.
FrameStartBytes == {47} \cup (65..90) \cup (48..57)

\* C21: in the Idle state a byte that is '/', 'A'..'Z' or '0'..'9' makes the
\* parser InFrame with line_index = 1, that byte at line_buffer[0], crc_done
\* clear and crc_calculated equal to the CRC16 of that single byte from
\* initial value 0; any other byte in Idle is discarded and leaves every
\* parser field and every record field unchanged; in both cases the return
\* value is 0.
C21_IdleByte ==
    [][ /\ (ReadsIdle /\ Head(rx) \in FrameStartBytes)
            => /\ dsmr_parser'.frame_active = 1
               /\ dsmr_parser'.line_index = 1
               /\ dsmr_parser'.line_buffer[1] = Head(rx)
               /\ dsmr_parser'.crc_done = 0
               /\ dsmr_parser'.crc_calculated = CrcOf(<<Head(rx)>>)
               /\ dsmr_data' = dsmr_data
               /\ ret' = 0
        /\ (ReadsIdle /\ Head(rx) \notin FrameStartBytes)
            => /\ dsmr_parser' = dsmr_parser
               /\ dsmr_data' = dsmr_data
               /\ ret' = 0 ]_vars

\* The byte '7' came to a parser left idle by a rejected telegram, with its
\* CRC fields and its record as that telegram left them, and started a frame.
C21_Witness ==
    /\ feed.kind = "idle" /\ feed.term = "bad" /\ feed.pos = 55
    /\ rx = <<>>
    /\ dsmr_parser.frame_active = 1
    /\ dsmr_parser.line_buffer = <<55>>
    /\ dsmr_data.current_power = 424000

-----------------------------------------------------------------------------
(* The software watchdog of loop() *)

TickMs == 300000

\* A time t after d more milliseconds; times are not told apart beyond cap.
Elapse(t, d, cap) == IF t + d > cap THEN cap ELSE t + d

WiFiCap == WIFI_TIMEOUT + TickMs
DataCap == WATCHDOG_TIMEOUT + TickMs

AnyConnected == \E i \in DOMAIN TCPClient : TCPClient[i].connected

\* TickMs milliseconds pass.
Tick ==
    /\ Running
    /\ wd' = [wd EXCEPT
                !.sinceBoot = Elapse(@, TickMs, WiFiCap),
                !.sinceWiFi = Elapse(@, TickMs, WiFiCap),
                !.sinceData = Elapse(@, TickMs, DataCap),
                !.sinceClient = Elapse(@, TickMs, DataCap),
                !.sinceUp = Elapse(@, TickMs, WiFiCap),
                !.sinceConn = IF AnyConnected THEN 0
                              ELSE Elapse(@, TickMs, DataCap)]
    /\ UNCHANGED << dsmr_parser, dsmr_data, dsmr_last_good, rx, ret, returned,
                    event, page, feed, start, nready, nchunks, TCPClient,
                    call, hasClient, web, raw >>

\* WiFi.status() becomes or ceases to be WL_CONNECTED.
WiFiChanges ==
    /\ Running
    /\ ~wd.apMode
    /\ wd' = [wd EXCEPT !.wifi = ~@]
    /\ UNCHANGED << dsmr_parser, dsmr_data, dsmr_last_good, rx, ret, returned,
                    event, page, feed, start, nready, nchunks, TCPClient,
                    call, hasClient, web, raw >>

Restarts(w, cause) == [w EXCEPT !.restart = cause]

\* A faulty variant: the boot grace period is not looked at.
wifi_check_no_grace(w) ==
    IF ~w.wifi
    THEN IF w.sinceWiFi > WIFI_TIMEOUT THEN Restarts(w, "wifi") ELSE w
    ELSE [w EXCEPT !.sinceWiFi = 0]

\* if (bootGracePassed && WiFi.status() != WL_CONNECTED) {
\*     if (now - lastWiFiCheck > WIFI_TIMEOUT) restart;
\* } else lastWiFiCheck = now;
wifi_check(w) ==
    IF w.sinceBoot > BOOT_GRACE_PERIOD /\ ~w.wifi
    THEN IF w.sinceWiFi > WIFI_TIMEOUT THEN Restarts(w, "wifi") ELSE w
    ELSE [w EXCEPT !.sinceWiFi = 0]

\* if (now - lastDataReceived > WATCHDOG_TIMEOUT) restart;
data_check(w) ==
    IF w.sinceData > WATCHDOG_TIMEOUT THEN Restarts(w, "data") ELSE w

\* if (activeClients == 0 && now - lastClientCheck > WATCHDOG_TIMEOUT) restart;
\* if (activeClients > 0) lastClientCheck = now;
client_check(w) ==
    IF w.activeClients = 0 /\ w.sinceClient > WATCHDOG_TIMEOUT
    THEN Restarts(w, "clients")
    ELSE IF w.activeClients > 0 THEN [w EXCEPT !.sinceClient = 0]
    ELSE w

\* One check after another, a restart ending the block.
then_data(w) == IF w.restart # "none" THEN w ELSE data_check(w)
then_client(w) == IF w.restart # "none" THEN w ELSE client_check(w)

\* The software watchdog block of loop(), client mode only.
watchdog(w) ==
    IF w.apMode THEN w ELSE then_client(then_data(wifi_check(w)))

\* The first part of loop(): the watchdog block.
loop_watchdog ==
    /\ Running
    /\ wd.at = "watchdog"
    /\ wd' = [watchdog(wd) EXCEPT !.at = "accept",
                                  !.sinceUp = IF wd.wifi THEN 0 ELSE @]
    /\ UNCHANGED << dsmr_parser, dsmr_data, dsmr_last_good, rx, ret, returned,
                    event, page, feed, start, nready, nchunks, TCPClient,
                    call, hasClient, web, raw >>

\* The second part: a waiting TCP client is accepted.
loop_accept ==
    /\ Running
    /\ wd.at = "accept"
    /\ IF hasClient > 0
       THEN /\ hasClient' = hasClient - 1
            /\ TCPClient' = accept(TCPClient, rx)
            /\ wd' = [wd EXCEPT !.at = "data",
                                !.sinceConn = IF FreeSlot(TCPClient) = 0
                                              THEN @ ELSE 0]
       ELSE /\ wd' = [wd EXCEPT !.at = "data"]
            /\ UNCHANGED << hasClient, TCPClient >>
    /\ UNCHANGED << dsmr_parser, dsmr_data, dsmr_last_good, rx, ret, returned,
                    event, page, feed, start, nready, nchunks, call, web, raw >>

\* The third part, one pass of its loop:
\* while (Serial.available()) processDataByte(Serial.read());
loop_data ==
    /\ wd.at = "data"
    /\ processDataByte

\* The end of that loop: no byte is available.
loop_data_done ==
    /\ Running
    /\ wd.at = "data"
    /\ rx = <<>>
    /\ wd' = [wd EXCEPT !.at = "count"]
    /\ UNCHANGED << dsmr_parser, dsmr_data, dsmr_last_good, rx, ret, returned,
                    event, page, feed, start, nready, nchunks, TCPClient,
                    call, hasClient, web, raw >>

\* The number of connected slots.
RECURSIVE CountConnected(_, _)
CountConnected(clients, i) ==
    IF i > MAX_TCP_CLIENTS THEN 0
    ELSE (IF clients[i].connected THEN 1 ELSE 0) + CountConnected(clients, i + 1)

\* if (count == 0 && prevActiveClients > 0) lastClientCheck = millis();
\* prevActiveClients = count; activeClients = count;
count_clients(w, count) ==
    [w EXCEPT !.sinceClient = IF count = 0 /\ w.prevActiveClients > 0
                              THEN 0 ELSE @,
              !.prevActiveClients = count,
              !.activeClients = count]

\* The last part: the connected clients are counted.
loop_count ==
    /\ Running
    /\ wd.at = "count"
    /\ wd' = [count_clients(wd, CountConnected(TCPClient, 1)) EXCEPT
                !.at = "watchdog"]
    /\ UNCHANGED << dsmr_parser, dsmr_data, dsmr_last_good, rx, ret, returned,
                    event, page, feed, start, nready, nchunks, TCPClient,
                    call, hasClient, web, raw >>

\* The meter sends a telegram with a wrong checksum.
BadTelegram == Telegram(<<"hdr">>, "bad")

MeterSends ==
    /\ Running
    /\ rx = <<>>
    /\ rx' = FeedBytes(BadTelegram)
    /\ feed' = BadTelegram
    /\ TCPClient' = [i \in DOMAIN TCPClient |->
                         IF TCPClient[i].connected
                         THEN NewClient(FeedBytes(BadTelegram))
                         ELSE TCPClient[i]]
    /\ UNCHANGED << dsmr_parser, dsmr_data, dsmr_last_good, ret, returned,
                    event, page, start, nready, nchunks, call, hasClient, wd,
                    web, raw >>

\* The device after setup(), in client mode or in AP mode, with up to two
\* TCP clients still to come.
InitWatch ==
    /\ InitProgram
    /\ rx = <<>>
    /\ feed = NoFeed
    /\ start = AtBoot
    /\ nchunks = 0
    /\ TCPClient = NoClients
    /\ call = NoCall
    /\ \E ap \in BOOLEAN : wd = AfterSetup(ap)
    /\ web = WebAfterSetup(DefaultConfig)
    /\ raw = RawAtBoot
    /\ hasClient \in {0, 1, 2}

NextWatch ==
    \/ Tick
    \/ WiFiChanges
    \/ MeterSends
    \/ ClientDisconnects
    \/ loop_watchdog
    \/ loop_accept
    \/ loop_data
    \/ loop_data_done
    \/ loop_count

SpecWatch == InitWatch /\ [][NextWatch]_vars

\* What loop_data does to rx; no other step of NextWatch shortens rx.
loop_data_reads ==
    /\ Running
    /\ wd.at = "data"
    /\ rx # <<>>
    /\ rx' = Tail(rx)

\* loop() is called again and again and time passes. The bytes of the meter
\* arrive far more slowly than the loop reads them, so the loop that reads
\* them, which finds rx empty again and again, ends. Every telegram the
\* meter sends has a wrong checksum.
SpecWatchFair ==
    /\ SpecWatch
    /\ WF_vars(Tick)
    /\ WF_vars(loop_watchdog)
    /\ WF_vars(loop_accept)
    /\ WF_rx(loop_data_reads)
    /\ SF_vars(loop_data_done)
    /\ WF_vars(loop_count)

\* C22: in client mode, when bytes keep arriving but every telegram fails its
\* checksum, so that dsmr_last_good is never updated, the device is
\* eventually restarted.
C22_ChecksumFailureRestarts ==
    []<>(rx # <<>>) => <>(wd.apMode \/ wd.restart # "none")

-----------------------------------------------------------------------------
(* The administrative routes of the web server *)

Users == {"admin", "noel"}
Passwords == {"admin", "secret"}
Networks == {"home", "other"}

\* The requests: with no credentials or with a user and a password, and
\* with the arguments of the form posted.
Credentials ==
    { [has_auth |-> FALSE, user |-> "", pass |-> ""] }
        \cup { [has_auth |-> TRUE, user |-> u, pass |-> p] :
                   u \in Users, p \in Passwords }

Request(path, cred, arg, arg_pass) ==
    [path |-> path, has_auth |-> cred.has_auth, user |-> cred.user,
     pass |-> cred.pass, arg |-> arg, arg_pass |-> arg_pass]

\* webServer.authenticate(config.wwwUser, config.wwwPass)
authenticate(c, req) ==
    req.has_auth /\ req.user = c.wwwUser /\ req.pass = c.wwwPass

\* What changes on the web side; a restart ends the run.
Handled(req, c, eeprom, firmware, restarts) ==
    /\ web' = [config |-> c, EEPROM |-> eeprom, firmware |-> firmware,
               request |-> req]
    /\ wd' = IF restarts THEN Restarts(wd, "web") ELSE wd
    /\ UNCHANGED << dsmr_parser, dsmr_data, dsmr_last_good, rx, ret, returned,
                    event, page, feed, start, nready, nchunks, TCPClient,
                    call, hasClient, raw >>

\* The request is answered with requestAuthentication() and nothing else.
Refused(req) == Handled(req, web.config, web.EEPROM, web.firmware, FALSE)

\* POST /saveConfig: no call of authenticate.
saveConfig ==
    /\ Running
    /\ \E cred \in Credentials, ssid \in Networks :
         LET c == [web.config EXCEPT !.wifiSsid = ssid]
         IN  Handled(Request("/saveConfig", cred, ssid, ""),
                     c, Stored(c), web.firmware, TRUE)

\* POST /savePass
savePass ==
    /\ Running
    /\ \E cred \in Credentials, u \in Users, p \in Passwords \cup {""} :
         LET req == Request("/savePass", cred, u, p)
             c == [web.config EXCEPT !.wwwUser = u,
                                     !.wwwPass = IF p # "" THEN p ELSE @]
         IN  IF ~authenticate(web.config, req) THEN Refused(req)
             ELSE Handled(req, c, Stored(c), web.firmware, FALSE)

\* POST /saveSource
saveSource ==
    /\ Running
    /\ \E cred \in Credentials, mode \in BOOLEAN :
         LET req == Request("/saveSource", cred,
                            IF mode THEN "1" ELSE "0", "")
             c == [web.config EXCEPT !.useTcpDataSource = mode]
         IN  IF ~authenticate(web.config, req) THEN Refused(req)
             ELSE Handled(req, c, Stored(c), web.firmware, TRUE)

\* POST /factReset: no call of authenticate.
factReset ==
    /\ Running
    /\ \E cred \in Credentials :
         Handled(Request("/factReset", cred, "", ""),
                 web.config, ErasedEEPROM, web.firmware, TRUE)

\* POST /update: the upload is written to flash and the device restarts;
\* no call of authenticate.
update ==
    /\ Running
    /\ \E cred \in Credentials :
         Handled(Request("/update", cred, "", ""),
                 web.config, web.EEPROM, "uploaded", TRUE)

\* The device after setup() with a stored configuration, in client mode or
\* in AP mode.
InitWeb ==
    /\ InitProgram
    /\ rx = <<>>
    /\ feed = NoFeed
    /\ start = AtBoot
    /\ nchunks = 0
    /\ TCPClient = NoClients
    /\ call = NoCall
    /\ hasClient = 0
    /\ \E ap \in BOOLEAN : wd = AfterSetup(ap)
    /\ \E u \in Users, p \in Passwords :
         web = WebAfterSetup([DefaultConfig EXCEPT !.wifiSsid = "home",
                                                   !.wwwUser = u,
                                                   !.wwwPass = p])
    /\ raw = RawAtBoot

NextWeb == saveConfig \/ savePass \/ saveSource \/ factReset \/ update

SpecWeb == InitWeb /\ [][NextWeb]_vars

\* C23: a request that does not carry the valid credentials changes neither
\* config nor the EEPROM nor the firmware and causes no restart.
C23_AdminNeedsAuth ==
    [][~authenticate(web.config, web'.request)
           => /\ web'.config = web.config
              /\ web'.EEPROM = web.EEPROM
              /\ web'.firmware = web.firmware
              /\ wd'.restart = wd.restart]_vars

-----------------------------------------------------------------------------
(* The slots of the TCP clients *)

MaxArrivals == 12

\* The number of slots that hold a connected client.
ConnectedCount == CountConnected(TCPClient, 1)

\* The device after setup() with one byte of noise on the line and
\* MaxArrivals TCP clients still to come.
InitClients ==
    /\ InitProgram
    /\ rx = FeedBytes(Noise)
    /\ feed = Noise
    /\ start = AtBoot
    /\ nchunks = 1
    /\ TCPClient = NoClients
    /\ call = NoCall
    /\ hasClient = MaxArrivals
    /\ wd = AfterSetup(FALSE)
    /\ web = WebAfterSetup(DefaultConfig)
    /\ raw = RawAtBoot

NextClients == tcpServer_accept \/ ClientDisconnects \/ processDataByte

SpecClients == InitClients /\ [][NextClients]_vars

\* The step takes a client from those waiting.
Accepts == hasClient' = hasClient - 1

\* C24: at most MAX_TCP_CLIENTS clients are connected; accepting a client
\* changes one slot at most, one that held no connected client, and changes
\* none when all slots hold connected clients.
C24_AtMostTenClients ==
    [][/\ ConnectedCount <= MAX_TCP_CLIENTS
       /\ Accepts =>
            /\ \A i \in DOMAIN TCPClient :
                   TCPClient[i].connected => TCPClient'[i] = TCPClient[i]
            /\ \A i, j \in DOMAIN TCPClient :
                   (TCPClient'[i] # TCPClient[i] /\ TCPClient'[j] # TCPClient[j])
                       => i = j
            /\ ConnectedCount = MAX_TCP_CLIENTS => TCPClient' = TCPClient
            /\ ConnectedCount < MAX_TCP_CLIENTS
                   => CountConnected(TCPClient', 1) = ConnectedCount + 1]_vars

\* Every slot holds a client that was connected before the byte was read,
\* and an eleventh client has come.
C24_Witness ==
    /\ ConnectedCount = MAX_TCP_CLIENTS
    /\ hasClient = MaxArrivals - MAX_TCP_CLIENTS - 1
    /\ rx = <<>>
    /\ \A i \in DOMAIN TCPClient : TCPClient[i].written # <<>>

\* The step is the watchdog block of loop() run in client mode.
RunsWatchdog == wd.at = "watchdog" /\ wd'.at = "accept" /\ ~wd.apMode

\* C25: the WiFi watchdog restarts the device only when no loop iteration
\* found WiFi connected for more than WIFI_TIMEOUT and more than
\* BOOT_GRACE_PERIOD has passed since boot; an iteration that finds WiFi
\* connected, or runs within the grace period, starts the countdown again and
\* does not restart for WiFi; in AP mode the watchdog never restarts.
C25_WiFiWatchdog ==
    [][/\ wd'.restart = "wifi"
            => /\ RunsWatchdog
               /\ ~wd.wifi
               /\ wd.sinceUp > WIFI_TIMEOUT
               /\ wd.sinceBoot > BOOT_GRACE_PERIOD
       /\ (RunsWatchdog /\ (wd.wifi \/ wd.sinceBoot <= BOOT_GRACE_PERIOD))
            => wd'.sinceWiFi = 0 /\ wd'.restart # "wifi"
       /\ wd.apMode => wd'.restart = "none"]_vars

\* The WiFi watchdog has restarted the device.
C25_Witness == wd.restart = "wifi"

\* C26: the client watchdog restarts the device only when no TCP client has
\* been connected at any time in the last WATCHDOG_TIMEOUT milliseconds.
C26_ClientWatchdog ==
    [][wd'.restart = "clients" => wd.sinceConn > WATCHDOG_TIMEOUT]_vars

-----------------------------------------------------------------------------
(* The bytes the checksum covers *)

\* Telegrams sent to a fresh program: plain, with a line wider than the line
\* buffer, and with a '!' inside a value; with a right, a wrong and no
\* checksum on the terminator line.
CrcBodies ==
    { <<"hdr", "pw1", "ret">>, <<"hdr", "wide", "mid">>,
      <<"hdr", "bangmid", "pw1">> }

InitCrc ==
    \E b \in CrcBodies : \E term \in {"good", "bad", "short"} :
        InitFeed(Telegram(b, term))

SpecCrc == InitCrc /\ [][NextFeed]_vars

\* The bytes of the chunk read so far.
Consumed(sent) == SubSeq(sent, 1, Len(sent) - Len(rx))

\* The least index from `from` on at which s holds a byte of set S, 0 if none.
FirstIn(s, S, from) ==
    LET at == { i \in from..Len(s) : s[i] \in S }
    IN  IF at = {} THEN 0 ELSE CHOOSE i \in at : \A j \in at : i <= j

\* The raw bytes of s from the first frame-start byte through the first '!'
\* after it.
ThroughFirstBang(s) ==
    SubSeq(s, FirstIn(s, FrameStartBytes, 1),
           FirstIn(s, {CH.bang}, FirstIn(s, FrameStartBytes, 1) + 1))

\* The byte read is the '\n' that ends a terminator line.
EndsTerminatorLine ==
    /\ ReadsByte
    /\ Head(rx) = CH.lf
    /\ dsmr_parser.frame_active = 1
    /\ IsTerminatorLine(Line)

\* C27: when a terminator line is processed, crc_calculated is the CRC16 of
\* the raw bytes from the frame-start byte through the first '!' of the
\* frame, '\r', '\n' and bytes dropped from a full line buffer included; no
\* byte after that '!' changes it.
C27_CrcCoversFrame ==
    [][/\ EndsTerminatorLine
            => dsmr_parser.crc_calculated
                   = CrcOf(ThroughFirstBang(Consumed(FeedBytes(feed))))
       /\ (ReadsByte /\ dsmr_parser.frame_active = 1
               /\ dsmr_parser.crc_done = 1 /\ ret' = 0
               /\ dsmr_parser'.frame_active = 1)
            => dsmr_parser'.crc_calculated = dsmr_parser.crc_calculated]_vars

\* A telegram with a line wider than the line buffer was accepted: the
\* bytes dropped from its line are part of the checksum.
C27_Witness ==
    /\ rx = <<>>
    /\ feed.body = <<"hdr", "wide", "mid">>
    /\ event = "ready"
    /\ dsmr_last_good.meter_id # <<>>

-----------------------------------------------------------------------------
(* After frame-ready *)

\* C28: right after the step in which dsmr_parse_byte returned frame-ready,
\* frame_active, line_index, crc_calculated and crc_done are 0 and every
\* field and flag of the working record is zero; the byte read next does not
\* return frame-ready again.
C28_ReinitAfterReady ==
    [][/\ (ReadsByte /\ ret' = 1)
            => /\ dsmr_parser'.frame_active = 0
               /\ dsmr_parser'.line_index = 0
               /\ dsmr_parser'.crc_calculated = 0
               /\ dsmr_parser'.crc_done = 0
               /\ dsmr_parser'.line_buffer = <<>>
               /\ dsmr_data' = EmptyData
               /\ dsmr_data'.frame_complete = 0
       /\ (ReadsByte /\ ret = 1) => ret' = 0]_vars

\* Frame-ready was returned for a telegram, and the first byte of the next
\* telegram was read after it and started a frame.
C28_Witness ==
    /\ dsmr_last_good.frame_complete = 1
    /\ nchunks = 2
    /\ Len(rx) = Len(FeedBytes(feed)) - 1
    /\ ret = 0
    /\ dsmr_parser.frame_active = 1
    /\ dsmr_parser.line_index = 1

-----------------------------------------------------------------------------
(* Equipment-id lines *)

\* Telegrams sent to a fresh program: with a second line that starts with an
\* upper-case letter, with a first line longer than the field, with such a
\* line last, with a '/' line that holds a ':', and with no equipment-id
\* line at all.
EquipBodies ==
    { <<"hdr", "pw1", "upper", "ret">>,
      <<"hdrlong", "mid", "hdr">>,
      <<"hdr", "hdrlong">>,
      <<"hdr", "slashcolon", "pw1">>,
      <<"slashcolon", "pw1">> }

InitEquip ==
    \E b \in EquipBodies : \E term \in {"good", "short"} :
        InitFeed(Telegram(b, term))

SpecEquip == InitEquip /\ [][NextFeed]_vars

\* The last line of body that starts with '/' or an upper-case letter and
\* holds no ':', empty if there is none.
RECURSIVE LastEquipmentLine(_)
LastEquipmentLine(body) ==
    IF body = <<>> THEN <<>>
    ELSE LET l == LineBytes(body[Len(body)], NoFeed)
         IN  IF IsEquipmentLine(l) THEN l
             ELSE LastEquipmentLine(SubSeq(body, 1, Len(body) - 1))

\* C29: a completed line of a frame that starts with '/' or 'A'..'Z' and
\* holds no ':' sets equipment_id to its first 32 characters and changes no
\* other field or flag of the record; at frame-ready equipment_id holds the
\* last such line of the telegram.
C29_EquipmentLine ==
    [][/\ (CompletesLine /\ IsEquipmentLine(Line))
            => /\ dsmr_data'
                    = [dsmr_data EXCEPT !.equipment_id = Truncated(Line, 32)]
               /\ dsmr_parser'.frame_active = 1
               /\ ret' = 0
       /\ (ReadsByte /\ ret' = 1)
            => returned'.equipment_id
                   = Truncated(LastEquipmentLine(feed.body), 32)]_vars

\* Frame-ready for a telegram whose second equipment-id line is longer than
\* the field.
C29_Witness ==
    /\ ret = 1
    /\ feed.body = <<"hdr", "hdrlong">>
    /\ Len(returned.equipment_id) = 32
    /\ returned.equipment_id # HDR

-----------------------------------------------------------------------------
(* store_value applied on its own *)

\* The numeric fields and the numerals stored into them.
NumericIds == OBIS_ID.POWER_LIMIT .. OBIS_ID.PF_L3
StoreInts == { <<48>>, <<48, 48>>, <<49>>, <<51, 51>>, <<50, 50, 57>> }
StoreFracs ==
    { <<>>, <<53>>, <<57, 53, 53>>, <<49, 50, 51, 52, 53, 54>>,
      <<49, 50, 51, 52, 53, 54, 55>> }
StoreNumerals ==
    { [int |-> i, frac |-> f, dot |-> TRUE] : i \in StoreInts, f \in StoreFracs }
      \cup { [int |-> i, frac |-> <<>>, dot |-> FALSE] : i \in StoreInts }

StoreCall(n, id) ==
    [NoCall EXCEPT !.fn = "store", !.str = FixedText(FALSE, n, 0),
                   !.numeral = n, !.id = id]

\* store_value(&dsmr_data, id, str) on the empty record.
ApplyStore ==
    /\ call.fn = "store"
    /\ ~call.done
    /\ call' = [call EXCEPT !.done = TRUE]
    /\ dsmr_data' = store_value(dsmr_data, call.id, call.str)
    /\ UNCHANGED << dsmr_parser, dsmr_last_good, rx, ret, returned, event,
                    page, feed, start, nready, nchunks, TCPClient, hasClient,
                    wd, web, raw >>

InitStore ==
    \E n \in StoreNumerals : \E id \in NumericIds : InitCall(StoreCall(n, id))

SpecStore == InitStore /\ [][ApplyStore]_vars

\* The decimal digits held by the field of code id in record d.
FieldText(d, id) ==
    CASE id = OBIS_ID.POWER_LIMIT      -> Decimal(d.power_limit)
      [] id = OBIS_ID.ENERGY_DEL_LOW   -> Decimal64(d.energy_delivered_low)
      [] id = OBIS_ID.ENERGY_DEL_HIGH  -> Decimal64(d.energy_delivered_high)
      [] id = OBIS_ID.ENERGY_PROD_LOW  -> Decimal64(d.energy_produced_low)
      [] id = OBIS_ID.ENERGY_PROD_HIGH -> Decimal64(d.energy_produced_high)
      [] id = OBIS_ID.CURRENT_POWER    -> Decimal(d.current_power)
      [] id = OBIS_ID.CURRENT_RETURN   -> Decimal(d.current_return)
      [] id = OBIS_ID.POWER_L1         -> Decimal(d.power_l1)
      [] id = OBIS_ID.POWER_L2         -> Decimal(d.power_l2)
      [] id = OBIS_ID.POWER_L3         -> Decimal(d.power_l3)
      [] id = OBIS_ID.RETURN_L1        -> Decimal(d.return_l1)
      [] id = OBIS_ID.RETURN_L2        -> Decimal(d.return_l2)
      [] id = OBIS_ID.RETURN_L3        -> Decimal(d.return_l3)
      [] id = OBIS_ID.VOLTAGE_L1       -> Decimal(d.voltage_l1)
      [] id = OBIS_ID.VOLTAGE_L2       -> Decimal(d.voltage_l2)
      [] id = OBIS_ID.VOLTAGE_L3       -> Decimal(d.voltage_l3)
      [] id = OBIS_ID.CURRENT_L1       -> Decimal(d.current_l1)
      [] id = OBIS_ID.CURRENT_L2       -> Decimal(d.current_l2)
      [] id = OBIS_ID.CURRENT_L3       -> Decimal(d.current_l3)
      [] id = OBIS_ID.PF_TOTAL         -> Decimal(d.pf_total)
      [] id = OBIS_ID.PF_L1            -> Decimal(d.pf_l1)
      [] id = OBIS_ID.PF_L2            -> Decimal(d.pf_l2)
      [] id = OBIS_ID.PF_L3            -> Decimal(d.pf_l3)

IsVoltage(id) == id \in OBIS_ID.VOLTAGE_L1 .. OBIS_ID.VOLTAGE_L3
IsCurrent(id) == id \in OBIS_ID.CURRENT_L1 .. OBIS_ID.CURRENT_L3
IsPowerFactor(id) == id \in OBIS_ID.PF_TOTAL .. OBIS_ID.PF_L3

\* How many decimal digits the division for the field of code id removes.
UnitDigits(id) ==
    IF IsVoltage(id) THEN 4 ELSE IF IsCurrent(id) THEN 3
    ELSE IF IsPowerFactor(id) THEN 2 ELSE 0

\* The digits of the number with digits s divided by 10^k.
DividedBy10(s, k) == IF Len(s) <= k THEN <<CH.d0>> ELSE SubSeq(s, 1, Len(s) - k)

\* C30: for a value whose micro-unit fixed point is m, store_value gives a
\* voltage field m / 10000, a current field m / 1000, a power-factor field
\* m / 100 with has_pf_data set, and every other numeric field m itself.
C30_ScaleAfterMicro ==
    (call.fn = "store" /\ call.done)
    => /\ FieldText(dsmr_data, call.id)
              = DividedBy10(MicroDigits(call.numeral), UnitDigits(call.id))
       /\ IsPowerFactor(call.id) => dsmr_data.has_pf_data = 1

\* ---------------------------------------------------------------------------
\* Claim C31
\* ---------------------------------------------------------------------------

\* ascii_to_fixed of SMR-Multi.ino (parser revision 6.1), on int32_t.
\* while (frac_digits < scale) { fraction *= 10; frac_digits++; }
RECURSIVE pad_to_scale(_, _, _)
pad_to_scale(fraction, frac_digits, scale) ==
    IF frac_digits < scale
    THEN pad_to_scale(fraction * 10, frac_digits + 1, scale)
    ELSE fraction

\* result = result * 1000000 + fraction of revision 6.1, as the integers
\* give it: r is what the scan loop left, which is the same loop in both
\* revisions ('-' is no digit and is passed over).
combine_v61(r, scale) ==
    AddNat64(MulAdd64(MulAdd64(r.result, 1000, 0), 1000, 0),
             pad_to_scale(r.fraction, r.frac_digits, scale))

\* The value revision 6.1 computes where no int32_t operation overflows.
ascii_to_fixed_v61(str, scale) ==
    signed64(FALSE, rescale(combine_v61(ascii_scan(str, 1, Zero64, 0, FALSE, 0),
                                        scale),
                            scale))

\* Whether a 64-bit magnitude is beyond INT32_MAX.
BeyondInt32(x) == x[4] # 0 \/ x[3] # 0 \/ x[2] >= 32768

\* Whether an int32_t operation of revision 6.1 overflows on str: the
\* operands only grow, so one does if and only if result * 1000000 + fraction
\* is beyond INT32_MAX.
v61_overflows(str, scale) ==
    LET r == ascii_scan(str, 1, Zero64, 0, FALSE, 0)
    IN  \/ BeyondInt32(r.result)
        \/ BeyondInt32(MulAdd64(r.result, 1000, 0))
        \/ BeyondInt32(combine_v61(r, scale))

\* What a call of revision 6.1 may return: its value, and where an
\* operation overflows whatever the build makes of it.
UndefinedInt32 ==
    { [neg |-> FALSE, mag |-> Zero64],
      [neg |-> FALSE, mag |-> Nat64(INT32_MAX)],
      [neg |-> TRUE, mag |-> <<0, 32768, 0, 0>>] }

\* (int32_t) of a 64-bit pattern: the low 32 bits read as two's complement.
Int32Of(x) ==
    IF x[2] >= 32768
    THEN [neg |-> TRUE, mag |-> Neg64(<<x[1], x[2], 65535, 65535>>)]
    ELSE [neg |-> FALSE, mag |-> <<x[1], x[2], 0, 0>>]

\* The value revision 6.1 computes where the operations wrap.
wrapped_v61(str, scale) ==
    LET full == Int32Of(combine_v61(ascii_scan(str, 1, Zero64, 0, FALSE, 0),
                                    scale))
    IN  signed64(full.neg, rescale(full.mag, scale))

v61_outcomes(str, scale) ==
    IF v61_overflows(str, scale)
    THEN UndefinedInt32 \cup {wrapped_v61(str, scale)}
    ELSE {ascii_to_fixed_v61(str, scale)}

\* The unsigned numerals given to both revisions: at most six fractional
\* digits, with or without a '.' where there are none.
RevInts ==
    { <<>>, <<48>>, <<49>>, <<50, 50, 57>>,
      <<50, 49, 52, 55>>,                  \* 2147
      <<50, 49, 52, 55, 52, 56>> }         \* 214748
RevFracs ==
    { <<>>, <<53>>, <<53, 48>>, <<52, 50, 52>>, <<49, 50, 51, 52>>,
      <<48, 48, 48, 48, 48, 49>>,          \* 000001
      <<52, 56, 51, 54, 52, 55>>,          \* 483647
      <<52, 56, 51, 54, 52, 56>> }         \* 483648
RevNumerals ==
    { [int |-> i, frac |-> f, dot |-> TRUE] : i \in RevInts, f \in RevFracs }
      \cup { [int |-> i, frac |-> <<>>, dot |-> FALSE] : i \in RevInts \ {<<>>} }

RevCall(n, scale) ==
    [NoCall EXCEPT !.fn = "revisions", !.str = NumeralText(n),
                   !.numeral = n, !.scale = scale]

\* The two functions applied to the same string and scale.
ApplyRevisions ==
    /\ call.fn = "revisions"
    /\ ~call.done
    /\ \E v \in fixed_outcomes(call.str, call.scale) :
       \E w \in v61_outcomes(call.str, call.scale) :
           call' = [call EXCEPT !.done = TRUE, !.value = v, !.v61 = w]
    /\ Resting

InitRevisions ==
    \E n \in RevNumerals : \E scale \in {2, 3, 6} : InitCall(RevCall(n, scale))

SpecRevisions == InitRevisions /\ [][ApplyRevisions]_vars

\* The value of revision 6.2 is within the range of int32_t.
FitsResult32(v) == ~BeyondInt32(v.mag)

\* C31: for every unsigned decimal numeral with at most 6 fractional digits
\* whose result fits in 32 bits and every scale in {2, 3, 6}, ascii_to_fixed
\* of revision 6.1 returns the same value as ascii_to_fixed of revision 6.2.
C31_RevisionsAgree ==
    (call.fn = "revisions" /\ call.done /\ FitsResult32(call.value))
    => call.v61 = call.value

\* ---------------------------------------------------------------------------
\* Claim C32
\* ---------------------------------------------------------------------------

\* The chunk is a well-formed telegram read to its end, the chunk before it
\* a telegram that was rejected for its checksum.
GoodAfterDiscarded ==
    /\ GoodTelegramRead
    /\ start.prev.kind = "telegram"
    /\ start.prev.term = "bad"
    /\ start.after = "rejected"

\* C32: no value parsed from a telegram that failed its checksum reaches the
\* consumer: after a discarded telegram and a validated one, dsmr_last_good
\* is what it was before the two (nothing was copied) or the record that the
\* lines of the validated telegram alone build from the empty record, every
\* field zero or empty or stored by a line of that telegram.
C32_NothingFromDiscarded ==
    GoodAfterDiscarded
    => \/ dsmr_last_good = start.seen
       \/ dsmr_last_good = FreshRun(FeedBytes(feed)).returned

\* ---------------------------------------------------------------------------
\* Claim C33
\* ---------------------------------------------------------------------------

\* C33: every telegram for which dsmr_parse_byte returns frame-ready is
\* published: in the step in which frame-ready is returned dsmr_last_good
\* becomes equal to the working record as it stood at frame-ready, also for
\* a telegram without the line 0-0:96.1.1.
C33_ReadyIsPublished ==
    [][ (ReadsByte /\ ret' = 1) => dsmr_last_good' = returned' ]_vars

\* ---------------------------------------------------------------------------
\* Claim C34
\* ---------------------------------------------------------------------------

\* Telegrams whose CRC16 is 00C9, 0AE1 and another, each ended by every kind
\* of terminator line, sent to a freshly initialised program.
TerminatorBodies ==
    { <<"hdr", "pw1", "upper">>, <<"hdr", "mid", "upper">>,
      <<"hdr", "mid", "pw1">> }
TerminatorKinds ==
    {"good", "bad", "short", "cut1", "cut2", "cut3", "tail", "plus",
     "prefix", "more"}

InitTerminator ==
    \E b \in TerminatorBodies : \E tm \in TerminatorKinds :
        InitFeed(Telegram(b, tm))

SpecTerminator == InitTerminator /\ [][NextFeed]_vars

\* The four characters of s are hexadecimal digits.
AllHex(s) == \A i \in 1..Len(s) : HexDigit(s[i]) < 16

\* C34: a terminator line never bypasses the CRC check when checksum
\* characters are present: a line of '!' followed by 1, 2 or 3 characters
\* does not set frame_complete, and a line with 4 or more characters after
\* the '!' sets it only when the first 4 are all hexadecimal digits whose
\* value equals the accumulated CRC.
C34_NoBypass ==
    [][ /\ (EndsTerminatorLine /\ Len(Line) \in 2..4)
            => (returned'.frame_complete = 0 /\ ret' = 0)
        /\ (EndsTerminatorLine /\ Len(Line) >= 5
              /\ returned'.frame_complete = 1)
            => /\ AllHex(SubSeq(Line, 2, 5))
               /\ HexAccum(SubSeq(Line, 2, 5), 1, 0)
                      = dsmr_parser.crc_calculated ]_vars

\* ---------------------------------------------------------------------------
\* Claim C35
\* ---------------------------------------------------------------------------

\* What the meter sent before two consecutive well-formed telegrams: noise,
\* an over-long line, a telegram without its terminator line, and a telegram
\* interrupted 1 to 7 bytes before its end (inside its terminator line) or
\* inside its last data line.
RecoverDrops == {1, 2, 4, 6, 7, 12}
RecoverPrefixes ==
    { Noise, OverLong("plain"), OverLong("bang"),
      Telegram(<<"hdr", "pw2">>, "none"), Telegram(<<"hdr", "pw2">>, "bad") }
        \cup { Interrupted(<<"hdr", "pw2">>, d) : d \in RecoverDrops }

InitRecover ==
    /\ InitProgram
    /\ \E p \in RecoverPrefixes : rx = FeedBytes(p) /\ feed = p
    /\ start = AtBoot
    /\ nchunks = 0
    /\ TCPClient = NoClients
    /\ call = NoCall
    /\ InitDevice

\* The meter sends the next of the two well-formed telegrams; nready counts
\* the frame-ready returns since the first of them began.
ReceiveNext(f) ==
    /\ Running
    /\ rx = <<>>
    /\ nchunks < MaxChunks
    /\ rx' = FeedBytes(f)
    /\ feed' = f
    /\ start' = [idle |-> dsmr_parser.frame_active = 0,
                 fresh |-> dsmr_parser = EmptyParser /\ dsmr_data = EmptyData,
                 after |-> event,
                 prev |-> feed,
                 seen |-> dsmr_last_good]
    /\ nready' = (IF nchunks = 0 THEN 0 ELSE nready)
    /\ nchunks' = nchunks + 1
    /\ page' = NoPage
    /\ UNCHANGED << dsmr_parser, dsmr_data, dsmr_last_good, ret, returned, event,
                    TCPClient, call, hasClient, wd, web, raw >>

ReceiveGood == \E b \in StreamBodies : ReceiveNext(Telegram(b, "good"))

NextRecover == ReceiveGood \/ processDataByte

SpecRecover == InitRecover /\ [][NextRecover]_vars

\* C35: bounded recovery: from any reachable parser state, two consecutive
\* well-formed telegrams with correct checksums yield frame-ready no later
\* than the final '\n' of the second.
C35_BoundedRecovery ==
    (nchunks = MaxChunks /\ rx = <<>>) => nready >= 1

\* ---------------------------------------------------------------------------
\* Claim C36
\* ---------------------------------------------------------------------------

\* Streams of chunks with every kind of line: equipment-id, data, ignored
\* and empty lines, terminator lines of every outcome, bytes received in the
\* Idle state and an over-long line.
ReturnsMenu ==
    { Telegram(b, tm) :
        b \in { <<"hdr", "pw1", "unk", "empty", "short">>, <<"hdr", "mid">> },
        tm \in {"good", "bad", "short", "cut3", "none"} }
      \cup { Noise, OverLong("bang") }

ReceiveAny == \E f \in ReturnsMenu : Receive(f)

NextReturns == ReceiveAny \/ processDataByte

SpecReturns == Init /\ [][NextReturns]_vars

\* C36: dsmr_parse_byte returns 1 only on a '\n' received in a frame whose
\* just-completed line starts with '!'; it returns 0 on every byte received
\* in the Idle state, on every '\r', on every byte that is not '\n', and on
\* the '\n' of every equipment-id, data or ignored line.
C36_ReadyOnlyOnTerminator ==
    [][ ReadsByte =>
          /\ ret' = 1 => (CompletesLine /\ IsTerminatorLine(Line))
          /\ dsmr_parser.frame_active = 0 => ret' = 0
          /\ Head(rx) = CH.cr => ret' = 0
          /\ Head(rx) # CH.lf => ret' = 0
          /\ (CompletesLine /\ ~IsTerminatorLine(Line)) => ret' = 0 ]_vars

\* After a telegram accepted on a truncated checksum, a telegram with
\* equipment-id, data, ignored and empty lines was read to frame-ready.
C36_Witness ==
    /\ nchunks = 2
    /\ start.prev.term = "cut3"
    /\ start.after = "ready"
    /\ feed = Telegram(<<"hdr", "pw1", "unk", "empty", "short">>, "good")
    /\ rx = <<>>
    /\ ret = 1
    /\ nready = 1

\* ---------------------------------------------------------------------------
\* Claims C37 and C38
\* ---------------------------------------------------------------------------

\* Byte streams for the raw capture. First: a run of bytes that just fits
\* the buffer with its "!\r\n", one byte more, and a longer one; a telegram
\* whose first bytes are missing; a noise byte; a telegram; a telegram with
\* a '!' inside a value. Then: a telegram, a run that overflows, "!\r\n".
RawFloods == {MAX_FRAME_SIZE - 3, MAX_FRAME_SIZE - 2, MAX_FRAME_SIZE + 10}
RawFirst ==
    { Flood(n) : n \in RawFloods }
      \cup { Late(<<"hdr", "pw1">>, 5), Noise,
             Telegram(<<"hdr", "pw1">>, "good"),
             Telegram(<<"hdr", "bangmid">>, "good") }
RawNext ==
    { Telegram(<<"hdr", "pw1">>, "good"), Flood(MAX_FRAME_SIZE - 2), Flood(0) }

InitRaw == \E f \in RawFirst : InitFeed(f)

ReceiveRaw == \E f \in RawNext : Receive(f)

NextRaw == ReceiveRaw \/ processDataByte

SpecRaw == InitRaw /\ [][NextRaw]_vars

\* C37: tempBuffer holds at most MAX_FRAME_SIZE bytes; lastFrameBuffer is
\* assigned only on a '\n' that follows a '!' and only if no more than
\* MAX_FRAME_SIZE bytes were received since the last '/' or the last frame
\* end (tempBuffer has not overflowed since); otherwise, after an overflow
\* as well, lastFrameBuffer keeps its content.
C37_BoundedCapture ==
    [][ /\ Len(raw'.tempBuffer) <= MAX_FRAME_SIZE
        /\ (ReadsByte /\ raw'.assigned)
             => /\ Head(rx) = CH.lf
                /\ raw.bang
                /\ raw.since < MAX_FRAME_SIZE
        /\ raw'.lastFrameBuffer # raw.lastFrameBuffer
             => (ReadsByte /\ raw'.assigned)
        /\ raw.since >= MAX_FRAME_SIZE
             => raw'.lastFrameBuffer = raw.lastFrameBuffer ]_vars

\* After a run of bytes that overflowed tempBuffer and whose "!\r\n" was
\* left out of lastFrameBuffer, a telegram was captured.
C37_Witness ==
    /\ nchunks = 2
    /\ start.prev = Flood(MAX_FRAME_SIZE + 10)
    /\ feed = Telegram(<<"hdr", "pw1">>, "good")
    /\ rx = <<>>
    /\ raw.assigned
    /\ Len(raw.lastFrameBuffer) = Len(FeedBytes(feed))
    /\ raw.tempBuffer = <<>>

\* The index of the first '!' of t.
FirstBang(t) == IndexFrom(t, CH.bang, 1)

\* C38: whenever processDataByte assigns lastFrameBuffer, the assigned text
\* begins with '/', contains a '!' and ends with the first '\n' after that
\* '!'.
C38_FrameDelimited ==
    [][ (ReadsByte /\ raw'.assigned)
          => /\ raw'.lastFrameBuffer # <<>>
             /\ raw'.lastFrameBuffer[1] = CH.slash
             /\ FirstBang(raw'.lastFrameBuffer) # 0
             /\ IndexFrom(raw'.lastFrameBuffer, CH.lf,
                          FirstBang(raw'.lastFrameBuffer))
                    = Len(raw'.lastFrameBuffer) ]_vars

====
